---- MODULE Spec2Model ----
(***************************************************************************)
(* Model of the CSBS event backend (apps-script/Code.gs): the REGISTER     *)
(* handler over the registration sheet.                                    *)
(*                                                                         *)
(* Strings are sequences of characters (one-character strings); the        *)
(* literal domain "vishnu.edu.in" is carried as a single symbol, so the    *)
(* regular expression /^[^\s@]+@vishnu\.edu\.in$/i reads: one or more      *)
(* symbols that are neither a blank nor "@", then "@", then the domain.    *)
(* The empty string "" is the empty sequence <<>>; a JSON field that is    *)
(* absent is the empty string too, as (x || "") makes it in the code.      *)
(*                                                                         *)
(* The registration sheet is the sequence of its data rows (row 1, the     *)
(* header, is not stored): getLastRow() is Len(sheet) + 1.  A row is the   *)
(* tuple of its 31 cells in the order of REG_HEADERS; the code's 0-based   *)
(* column index i is position i + 1 of the tuple.                          *)
(***************************************************************************)
EXTENDS Integers, Sequences, FiniteSets, TLC

\* ------------------------------------------------------------- bounds
\* Requests that may run concurrently (specification Spec).
NumReq == 2
\* Requests are started only while the sheet has fewer data rows than this.
MaxRows == 2
\* Largest value of the millisecond clock.
MaxClock == 1

\* ---------------------------------------------------- CONFIG, headers
MAX_TEAM_SIZE == 5

REG_HEADERS ==
  << "S.No", "Timestamp", "Registration ID", "Ticket Number", "Team Name",
     "Leader Name", "Leader Email", "Leader Phone",
     "Leader Branch", "Leader Section", "Team Size",
     "Member 2 Name", "Member 2 Email", "Member 2 Phone", "Member 2 Branch", "Member 2 Section",
     "Member 3 Name", "Member 3 Email", "Member 3 Phone", "Member 3 Branch", "Member 3 Section",
     "Member 4 Name", "Member 4 Email", "Member 4 Phone", "Member 4 Branch", "Member 4 Section",
     "Member 5 Name", "Member 5 Email", "Member 5 Phone", "Member 5 Branch", "Member 5 Section" >>

\* Email column indices (0-based): leader, members 2..5.
emailColIndices == <<6, 12, 17, 22, 27>>

\* The three random characters of a ticket number, drawn from CONFIG.OTP_CHARS.
TicketSuffixes == {"AAA", "ZZ9"}

\* ------------------------------------------------------------ strings
Domain == "vishnu.edu.in"

Digits == {"0", "1", "2", "3", "4", "5", "6", "7", "8", "9"}

\* String.prototype.toLowerCase, one character.
LowerChar(c) ==
  CASE c = "A" -> "a"
    [] c = "B" -> "b"
    [] c = "C" -> "c"
    [] c = "D" -> "d"
    [] c = "E" -> "e"
    [] c = "F" -> "f"
    [] c = "X" -> "x"
    [] c = "Y" -> "y"
    [] c = "VISHNU.EDU.IN" -> Domain
    [] OTHER -> c

toLowerCase(s) == [i \in 1..Len(s) |-> LowerChar(s[i])]

RECURSIVE trimStart(_)
trimStart(s) ==
  IF s # <<>> /\ Head(s) = " " THEN trimStart(Tail(s)) ELSE s

RECURSIVE trimEnd(_)
trimEnd(s) ==
  IF s # <<>> /\ s[Len(s)] = " " THEN trimEnd(SubSeq(s, 1, Len(s) - 1)) ELSE s

\* String.prototype.trim
trim(s) == trimEnd(trimStart(s))

\* phone.replace(/\D/g, "").length
digitCount(s) == Cardinality({i \in 1..Len(s) : s[i] \in Digits})

\* /^[^\s@]+@vishnu\.edu\.in$/i.test(email)
isVishnuEmail_(email) ==
  LET lc == toLowerCase(email)
      n  == Len(lc)
  IN  /\ n >= 3
      /\ lc[n] = Domain
      /\ lc[n - 1] = "@"
      /\ \A i \in 1..(n - 2) : lc[i] \notin {" ", "@"}

\* parseInt(body.teamSize) || 1 ; an absent or non-numeric teamSize is NaN,
\* which is falsy like 0: the request carries 0 for it.
parseTeamSize(raw) == IF raw = 0 THEN 1 ELSE raw

\* An instant is a clock value t; its ISO string is <<"ISO", t>>.
toISOString(t) == <<"ISO", t>>

\* formatTimestamp_: the instant of the ISO string in "yyyy-MM-dd HH:mm:ss".
formatTimestamp_(isoString) ==
  IF Len(isoString) = 2 /\ isoString[1] = "ISO"
    THEN <<"yyyy-MM-dd HH:mm:ss", isoString[2]>>
    ELSE isoString

\* ---------------------------------------------------------- responses
\* A message is its text with the number and the string spliced into it.
Msg(text, num, str) == [text |-> text, num |-> num, str |-> str]

NoError == Msg("", 0, <<>>)

\* data || {} of an error response.
NoData ==
  [serialNo |-> 0, email |-> <<>>, totalRegistered |-> 0,
   registrationId |-> <<>>, ticketNumber |-> <<>>]

buildResponse(status, message, data) ==
  [status |-> status, success |-> (status = "success"),
   message |-> message, data |-> data]

\* No response yet: the request is still running (or was never made).
NoResponse == [status |-> "none", success |-> FALSE, message |-> NoError, data |-> NoData]

\* --------------------------------------- handleRegister_: validations
\* The member loop left out: member entries are not validated.
validateMembers_Skipped(teamMembers, v) == NoError

\* Lines 195-215: the first invalid field of the members, by loop index v.
RECURSIVE validateMembers(_, _)
validateMembers(teamMembers, v) ==
  IF v >= Len(teamMembers) THEN NoError
  ELSE
    LET tm     == teamMembers[v + 1]
        mNum   == v + 2
        mEmail == toLowerCase(trim(tm.email))
        mPhone == trim(tm.phone)
    IN  IF trim(tm.name) = <<>>
          THEN Msg("Member # name is required.", mNum, <<>>)
        ELSE IF mEmail = <<>> \/ ~isVishnuEmail_(mEmail)
          THEN Msg("Member # requires a valid @vishnu.edu.in email.", mNum, <<>>)
        ELSE IF mPhone = <<>> \/ digitCount(mPhone) # 10
          THEN Msg("Member # requires a valid 10-digit phone number.", mNum, <<>>)
        ELSE IF trim(tm.branch) = <<>>
          THEN Msg("Member # branch is required.", mNum, <<>>)
        ELSE IF trim(tm.section) = <<>>
          THEN Msg("Member # section is required.", mNum, <<>>)
        ELSE validateMembers(teamMembers, v + 1)

InSeq(x, s) == \E i \in 1..Len(s) : s[i] = x

\* Lines 218-228: the emails of the submission, or the first member email
\* that repeats an earlier one (dup).
RECURSIVE collectEmails(_, _, _)
collectEmails(teamMembers, se, submissionEmails) ==
  IF se >= Len(teamMembers) THEN [dup |-> <<>>, emails |-> submissionEmails]
  ELSE
    LET memberEmail == toLowerCase(trim(teamMembers[se + 1].email))
    IN  IF memberEmail # <<>>
          THEN IF InSeq(memberEmail, submissionEmails)
                 THEN [dup |-> memberEmail, emails |-> submissionEmails]
                 ELSE collectEmails(teamMembers, se + 1,
                                    Append(submissionEmails, memberEmail))
          ELSE collectEmails(teamMembers, se + 1, submissionEmails)

submissionEmailsOf(body) ==
  collectEmails(body.teamMembers, 0, <<toLowerCase(trim(body.email))>>)

\* Lines 162-228: the message of the first failing validation, NoError if none.
validate(body) ==
  LET leaderName == trim(body.leaderName)
      email      == toLowerCase(trim(body.email))
      phone      == trim(body.phone)
      branch     == trim(body.branch)
      section    == trim(body.section)
      teamName   == trim(body.teamName)
      teamSize   == parseTeamSize(body.teamSize)
      memberErr  == validateMembers(body.teamMembers, 0)
      collected  == submissionEmailsOf(body)
  IN  IF leaderName = <<>>
        THEN Msg("Leader name is required.", 0, <<>>)
      ELSE IF email = <<>> \/ ~isVishnuEmail_(email)
        THEN Msg("A valid @vishnu.edu.in email is required.", 0, <<>>)
      ELSE IF phone = <<>> \/ digitCount(phone) # 10
        THEN Msg("A valid 10-digit phone number is required.", 0, <<>>)
      ELSE IF branch = <<>>
        THEN Msg("Branch is required.", 0, <<>>)
      ELSE IF section = <<>>
        THEN Msg("Section is required.", 0, <<>>)
      ELSE IF teamSize > 1 /\ teamName = <<>>
        THEN Msg("Team name is required for teams.", 0, <<>>)
      ELSE IF memberErr # NoError
        THEN memberErr
      ELSE IF collected.dup # <<>>
        THEN Msg("Duplicate email within submission: $. Each member must have a unique email.",
                 0, collected.dup)
      ELSE NoError

\* ------------------------------------- handleRegister_: duplicate check
\* Lines 255-266: the set of all emails in the rows read.
existingEmails(allData) ==
  { toLowerCase(trim(allData[r][emailColIndices[ec] + 1])) :
      r \in 1..Len(allData), ec \in 1..Len(emailColIndices) } \ {<<>>}

\* Lines 269-273: the first submission email that is already registered.
RECURSIVE firstRegistered(_, _, _)
firstRegistered(submissionEmails, sc, existing) ==
  IF sc >= Len(submissionEmails) THEN <<>>
  ELSE IF submissionEmails[sc + 1] \in existing THEN submissionEmails[sc + 1]
  ELSE firstRegistered(submissionEmails, sc + 1, existing)

\* The comparison without toLowerCase on either side.
teamNameTaken_CaseSensitive(teamName, allData) ==
  /\ teamName # <<>>
  /\ \E tn \in 1..Len(allData) :
        LET existingTeamName == trim(allData[tn][4 + 1])
        IN  existingTeamName # <<>> /\ existingTeamName = teamName

\* Lines 276-284: the team name is that of a row read (column index 4).
teamNameTaken(teamName, allData) ==
  /\ teamName # <<>>
  /\ \E tn \in 1..Len(allData) :
        LET existingTeamName == toLowerCase(trim(allData[tn][4 + 1]))
        IN  existingTeamName # <<>> /\ existingTeamName = toLowerCase(teamName)

\* The two conflict checks in the other order.
checkDuplicates_TeamFirst(body, allData) ==
  LET taken    == firstRegistered(submissionEmailsOf(body).emails, 0,
                                  existingEmails(allData))
      teamName == trim(body.teamName)
  IN  IF teamNameTaken(teamName, allData)
        THEN Msg("Team name '$' is already taken. Please choose a different name.",
                 0, teamName)
      ELSE IF taken # <<>>
        THEN Msg("Email '$' is already registered. Each person can only register once.",
                 0, taken)
      ELSE NoError

\* Lines 252-285: the message of the conflict with the rows read, NoError if none.
checkDuplicates(body, allData) ==
  LET taken    == firstRegistered(submissionEmailsOf(body).emails, 0,
                                  existingEmails(allData))
      teamName == trim(body.teamName)
  IN  IF taken # <<>>
        THEN Msg("Email '$' is already registered. Each person can only register once.",
                 0, taken)
      ELSE IF teamNameTaken(teamName, allData)
        THEN Msg("Team name '$' is already taken. Please choose a different name.",
                 0, teamName)
      ELSE NoError

\* ------------------------------------------- handleRegister_: the row
\* Lines 305-319: the five cells of member slot m (0-based), blank past the list.
memberCells(teamMembers, m) ==
  IF m < Len(teamMembers)
    THEN << trim(teamMembers[m + 1].name),
            toLowerCase(trim(teamMembers[m + 1].email)),
            trim(teamMembers[m + 1].phone),
            trim(teamMembers[m + 1].branch),
            trim(teamMembers[m + 1].section) >>
    ELSE << <<>>, <<>>, <<>>, <<>>, <<>> >>

RECURSIVE memberColumns(_, _)
memberColumns(teamMembers, m) ==
  IF m >= MAX_TEAM_SIZE - 1 THEN <<>>
  ELSE memberCells(teamMembers, m) \o memberColumns(teamMembers, m + 1)

\* Lines 289-319.
buildRow(serialNo, timestamp, body) ==
  << serialNo,
     formatTimestamp_(timestamp),
     <<>>,
     <<>>,
     trim(body.teamName),
     trim(body.leaderName),
     toLowerCase(trim(body.email)),
     trim(body.phone),
     trim(body.branch),
     trim(body.section),
     parseTeamSize(body.teamSize) >>
  \o memberColumns(body.teamMembers, 0)

\* ----------------------------------------------------- request bodies
Name     == <<"T">>
Phone10  == <<"9", "8", "7", "6", "5", "4", "3", "2", "1", "0">>
PhoneSep == <<"9", "8", "7", "6", "5", "-", "4", "3", "2", "1", "0">>
Phone9   == <<"9", "8", "7", "6", "5", "4", "3", "2", "1">>
Branch   == <<"C">>
Section  == <<"A">>

Email(c) == <<c, "@", Domain>>
eA  == Email("a")
\* eA as typed with blanks around it and in capitals.
eAv == <<" ", "A", "@", "VISHNU.EDU.IN", " ">>
eB  == Email("b")
eC  == Email("c")
eD  == Email("d")
eE  == Email("e")
eF  == Email("f")
\* Another domain.
eBad == <<"a", "@", "x">>

tX  == <<"x">>
tXv == <<" ", "X">>
tY  == <<"y">>

Member(e) ==
  [name |-> Name, email |-> e, phone |-> Phone10, branch |-> Branch, section |-> Section]

Body(e, teamName, teamSize, teamMembers) ==
  [leaderName |-> Name, email |-> e, phone |-> Phone10, branch |-> Branch,
   section |-> Section, teamName |-> teamName, teamSize |-> teamSize,
   teamMembers |-> teamMembers, timestamp |-> toISOString(0)]

\* Bodies that pass every validation.
ValidBodies ==
  { Body(eA, <<>>, 1, <<>>),
    [Body(eAv, <<>>, 0, <<>>) EXCEPT !.phone = PhoneSep, !.timestamp = <<>>],
    Body(eB, tX, 2, <<Member(eC)>>),
    Body(eC, tXv, 2, <<Member(eAv)>>),
    Body(eB, tY, 3, <<>>),
    Body(eC, <<>>, -1, <<>>),
    Body(eA, tY, 6, <<Member(eB), Member(eC), Member(eD), Member(eE), Member(eF)>>),
    Body(eF, <<>>, 1, <<>>),
    Body(eD, <<>>, 1, <<Member(eE)>>),
    Body(eD, tX, 1, <<>>) }

Team2(m) == Body(eA, tX, 2, <<m>>)

\* Bodies with one or more invalid fields, or an email twice.
InvalidBodies ==
  { [Body(eA, <<>>, 1, <<>>) EXCEPT !.leaderName = <<" ">>],
    Body(eBad, <<>>, 1, <<>>),
    Body(<<>>, <<>>, 1, <<>>),
    Body(<<"a", " ", "b", "@", Domain>>, <<>>, 1, <<>>),
    [Body(eA, <<>>, 1, <<>>) EXCEPT !.phone = Phone9],
    [Body(eA, <<>>, 1, <<>>) EXCEPT !.phone = <<>>],
    [Body(eA, <<>>, 1, <<>>) EXCEPT !.branch = <<>>],
    [Body(eA, <<>>, 1, <<>>) EXCEPT !.section = <<" ">>],
    Body(eA, <<" ">>, 2, <<Member(eB)>>),
    \* two fields, neighbours in the order of the checks
    [Body(eBad, <<>>, 1, <<>>) EXCEPT !.leaderName = <<>>],
    [Body(eBad, <<>>, 1, <<>>) EXCEPT !.phone = Phone9],
    [Body(eA, <<>>, 1, <<>>) EXCEPT !.phone = Phone9, !.branch = <<>>],
    [Body(eA, <<>>, 1, <<>>) EXCEPT !.branch = <<>>, !.section = <<>>],
    [Body(eA, <<>>, 2, <<Member(eB)>>) EXCEPT !.section = <<>>],
    Team2([Member(eB) EXCEPT !.name = <<>>]),
    Body(eA, <<>>, 2, <<[Member(eB) EXCEPT !.name = <<>>]>>),
    \* one member field
    Team2([Member(eBad) EXCEPT !.name = <<" ">>]),
    Team2(Member(eBad)),
    Team2(Member(<<>>)),
    Team2([Member(eBad) EXCEPT !.phone = Phone9]),
    Team2([Member(eB) EXCEPT !.phone = Phone9]),
    Team2([Member(eB) EXCEPT !.phone = Phone9, !.branch = <<>>]),
    Team2([Member(eB) EXCEPT !.branch = <<>>]),
    Team2([Member(eB) EXCEPT !.branch = <<>>, !.section = <<>>]),
    Team2([Member(eB) EXCEPT !.section = <<>>]),
    \* the second member, and two members
    Body(eA, tX, 3, <<Member(eB), [Member(eC) EXCEPT !.phone = Phone9]>>),
    Body(eA, tX, 3, <<[Member(eB) EXCEPT !.section = <<>>],
                      [Member(eC) EXCEPT !.name = <<>>]>>),
    \* an email twice in the submission
    Team2(Member(eAv)),
    Body(eA, tX, 3, <<Member(eB), Member(eB)>>),
    Body(eA, tX, 3, <<Member(eA), [Member(eB) EXCEPT !.section = <<>>]>>),
    \* teamSize 1 with member entries
    Body(eA, <<>>, 1, <<Member(eBad)>>),
    Body(eB, <<>>, 1, <<Member(eB)>>) }

\* The request bodies of the sequential specification.
Bodies == ValidBodies \cup InvalidBodies

\* The request bodies of concurrent requests.
RaceBodies ==
  { Body(eA, <<>>, 1, <<>>),
    Body(eB, tX, 2, <<Member(eAv)>>),
    Body(eC, <<>>, 1, <<>>),
    [Body(eA, <<>>, 1, <<>>) EXCEPT !.leaderName = <<>>] }

\* ================================================== admin OTP service
\* Time is counted in minutes, the unit of OTP_EXPIRY_MINUTES and
\* LOCKOUT_MINUTES.  The clock moves between requests only, by TickMinutes.
TickMinutes == 5
MaxTime == 15

\* ------------------------------------------------- CONFIG: OTP settings
OTP_PREFIX == <<"C", "S", "B", "S", "-">>
OTP_LENGTH == 4
OTP_EXPIRY_MINUTES == 5
MAX_FAILED_ATTEMPTS == 3
LOCKOUT_MINUTES == 15

\* String.prototype.toUpperCase, one character.
UpperChar(c) ==
  CASE c = "a" -> "A"
    [] c = "b" -> "B"
    [] c = "c" -> "C"
    [] c = "s" -> "S"
    [] c = "x" -> "X"
    [] c = "z" -> "Z"
    [] c = Domain -> "VISHNU.EDU.IN"
    [] c = "register" -> "REGISTER"
    [] c = "send_otp" -> "SEND_OTP"
    [] OTHER -> c

toUpperCase(s) == [i \in 1..Len(s) |-> UpperChar(s[i])]

\* s.indexOf(prefix) === 0
StartsWith(s, prefix) ==
  Len(s) >= Len(prefix) /\ SubSeq(s, 1, Len(prefix)) = prefix

\* isValidEmail_: a non-empty string that matches /^[^\s@]+@vishnu\.edu\.in$/i.
isValidEmail_(email) == email # <<>> /\ isVishnuEmail_(email)

\* Lines 729-731: the code is PREFIX + LENGTH characters.
isValidOtpFormat(code) ==
  /\ code # <<>>
  /\ Len(code) = Len(OTP_PREFIX) + OTP_LENGTH
  /\ StartsWith(code, OTP_PREFIX)

\* JSON.stringify and JSON.parse of a property value; new Date(isoString).
JSONstringify(data) == <<"JSON", data>>

JSONparse(raw) == raw[2]

parseDate(isoString) == isoString[2]

\* ---------------------------------------------------- script properties
\* The properties are a function from the keys that are set to their values.
null == <<>>

getProperty(store, key) == IF key \in DOMAIN store THEN store[key] ELSE null

setProperty(store, key, value) ==
  [k \in (DOMAIN store) \cup {key} |-> IF k = key THEN value ELSE store[k]]

deleteProperty(store, key) == [k \in (DOMAIN store) \ {key} |-> store[k]]

otpKey(email) == <<"otp_">> \o email

lockoutKey(email) == <<"lockout_">> \o email

\* ------------------------------------------------------- OTP utilities
\* The four random characters of generateOtp_, drawn from CONFIG.OTP_CHARS.
OtpDraws == { <<"A", "A", "A", "A">>, <<"Z", "Z", "9", "9">> }

generateOtp_(draw) == OTP_PREFIX \o draw

OtpData(code, expiryIso, isUsed, createdAt) ==
  [otp |-> code, expiry |-> expiryIso, isUsed |-> isUsed, createdAt |-> createdAt]

\* storeOtp_ that keeps a record that is there already.
storeOtp_KeepFirst(store, email, code, exp, t) ==
  IF otpKey(email) \in DOMAIN store THEN store
  ELSE setProperty(store, otpKey(email),
                   JSONstringify(OtpData(code, toISOString(exp), FALSE, toISOString(t))))

\* storeOtp_ at time t.
storeOtp_(store, email, code, exp, t) ==
  setProperty(store, otpKey(email),
              JSONstringify(OtpData(code, toISOString(exp), FALSE, toISOString(t))))

NoOtpText == "No OTP found. Please request a new access code."

UsedText == "This OTP has already been used. Please request a new code."

ExpiredText == "OTP has expired. Please request a new access code."

MismatchText == "Invalid OTP. Please check and try again."

Verdict(valid, reason, store) == [valid |-> valid, reason |-> reason, props |-> store]

\* The record with isUsed and usedAt set.
Consumed(data, t) ==
  [otp |-> data.otp, expiry |-> data.expiry, isUsed |-> TRUE,
   createdAt |-> data.createdAt, usedAt |-> toISOString(t)]

\* verifyAndConsumeOtp_ that accepts without marking the record.
verifyAndConsumeOtp_NotConsumed(store, email, code, t) ==
  LET raw  == getProperty(store, otpKey(email))
      data == JSONparse(raw)
  IN  IF raw = null THEN Verdict(FALSE, NoOtpText, store)
      ELSE IF data.isUsed THEN Verdict(FALSE, UsedText, store)
      ELSE IF t > parseDate(data.expiry) THEN Verdict(FALSE, ExpiredText, store)
      ELSE IF data.otp # code THEN Verdict(FALSE, MismatchText, store)
      ELSE Verdict(TRUE, "", store)

\* verifyAndConsumeOtp_ whose code expires at the expiry instant itself.
verifyAndConsumeOtp_ExpiryInclusive(store, email, code, t) ==
  LET raw  == getProperty(store, otpKey(email))
      data == JSONparse(raw)
  IN  IF raw = null THEN Verdict(FALSE, NoOtpText, store)
      ELSE IF data.isUsed THEN Verdict(FALSE, UsedText, store)
      ELSE IF t >= parseDate(data.expiry) THEN Verdict(FALSE, ExpiredText, store)
      ELSE IF data.otp # code THEN Verdict(FALSE, MismatchText, store)
      ELSE Verdict(TRUE, "",
                   setProperty(store, otpKey(email), JSONstringify(Consumed(data, t))))

\* verifyAndConsumeOtp_ that compares the code before the other checks.
verifyAndConsumeOtp_MismatchFirst(store, email, code, t) ==
  LET raw  == getProperty(store, otpKey(email))
      data == JSONparse(raw)
  IN  IF raw = null THEN Verdict(FALSE, NoOtpText, store)
      ELSE IF data.otp # code THEN Verdict(FALSE, MismatchText, store)
      ELSE IF data.isUsed THEN Verdict(FALSE, UsedText, store)
      ELSE IF t > parseDate(data.expiry) THEN Verdict(FALSE, ExpiredText, store)
      ELSE Verdict(TRUE, "",
                   setProperty(store, otpKey(email), JSONstringify(Consumed(data, t))))

\* verifyAndConsumeOtp_ at time t: the verdict and the properties it leaves.
\* (The corrupted-JSON branch is unreachable: every value is written by
\* JSON.stringify.)
verifyAndConsumeOtp_(store, email, code, t) ==
  LET raw  == getProperty(store, otpKey(email))
      data == JSONparse(raw)
  IN  IF raw = null THEN Verdict(FALSE, NoOtpText, store)
      ELSE IF data.isUsed THEN Verdict(FALSE, UsedText, store)
      ELSE IF t > parseDate(data.expiry) THEN Verdict(FALSE, ExpiredText, store)
      ELSE IF data.otp # code THEN Verdict(FALSE, MismatchText, store)
      ELSE Verdict(TRUE, "",
                   setProperty(store, otpKey(email), JSONstringify(Consumed(data, t))))

\* ------------------------------------------------ brute-force prevention
\* isLockedOut_ that locks only above the threshold.
isLockedOut_AboveThreshold(store, email, t) ==
  LET raw  == getProperty(store, lockoutKey(email))
      data == JSONparse(raw)
  IN  IF raw = null THEN [locked |-> FALSE, props |-> store]
      ELSE IF data.count > MAX_FAILED_ATTEMPTS
        THEN IF t < parseDate(data.lastAttempt) + LOCKOUT_MINUTES
               THEN [locked |-> TRUE, props |-> store]
               ELSE [locked |-> FALSE, props |-> deleteProperty(store, lockoutKey(email))]
        ELSE [locked |-> FALSE, props |-> store]

\* isLockedOut_ that restarts the window of a lockout it reports.
isLockedOut_Extending(store, email, t) ==
  LET raw  == getProperty(store, lockoutKey(email))
      data == JSONparse(raw)
  IN  IF raw = null THEN [locked |-> FALSE, props |-> store]
      ELSE IF data.count >= MAX_FAILED_ATTEMPTS
        THEN IF t < parseDate(data.lastAttempt) + LOCKOUT_MINUTES
               THEN [locked |-> TRUE,
                     props |-> setProperty(store, lockoutKey(email),
                                 JSONstringify([count |-> data.count,
                                                lastAttempt |-> toISOString(t)]))]
               ELSE [locked |-> FALSE, props |-> deleteProperty(store, lockoutKey(email))]
        ELSE [locked |-> FALSE, props |-> store]

\* isLockedOut_ at time t: the answer and the properties it leaves (an
\* elapsed lockout is deleted).
isLockedOut_(store, email, t) ==
  LET raw  == getProperty(store, lockoutKey(email))
      data == JSONparse(raw)
  IN  IF raw = null THEN [locked |-> FALSE, props |-> store]
      ELSE IF data.count >= MAX_FAILED_ATTEMPTS
        THEN IF t < parseDate(data.lastAttempt) + LOCKOUT_MINUTES
               THEN [locked |-> TRUE, props |-> store]
               ELSE [locked |-> FALSE, props |-> deleteProperty(store, lockoutKey(email))]
        ELSE [locked |-> FALSE, props |-> store]

LockoutData(count, lastAttempt) == [count |-> count, lastAttempt |-> lastAttempt]

\* incrementFailedAttempts_ after its getProperty returned raw: the value it sets.
incrementFailedAttempts_(raw, t) ==
  LET data == IF raw = null THEN [count |-> 0] ELSE JSONparse(raw)
  IN  JSONstringify(LockoutData(data.count + 1, toISOString(t)))

\* resetFailedAttempts_ that leaves the record.
resetFailedAttempts_Kept(store, email) == store

resetFailedAttempts_(store, email) == deleteProperty(store, lockoutKey(email))

\* -------------------------------------------------- Firestore directory
\* The documents of the admins collection, by email.
admins == (eA :> [name |-> Name, role |-> <<"a", "d", "m", "i", "n">>])

\* How the runQuery call ends: status 200, another status, an exception.
LookupOutcomes == {"200", "500", "throw"}

\* getFirestoreAdmin_ that finds a document for every email.
getFirestoreAdmin_Any(email, outcome) == admins[eA]

\* getFirestoreAdmin_: the document, or null (also when the query failed).
getFirestoreAdmin_(email, outcome) ==
  IF outcome # "200" THEN null
  ELSE IF email \in DOMAIN admins THEN admins[email]
  ELSE null

\* ------------------------------------------------------ request bodies
OtpBody(action, email, code) == [action |-> action, email |-> email, otp |-> code]

Code(draw) == generateOtp_(draw)

CodeLower == <<" ", "c", "s", "b", "s", "-", "a", "a", "a", "a", " ">>

\* The emails the OTP requests are made for, as the handlers normalise them.
OtpEmails == {eA, eB}

SendBodies ==
  { OtpBody("SEND_OTP", eA, <<>>),
    OtpBody("SEND_OTP", eAv, <<>>),
    OtpBody("SEND_OTP", eB, <<>>),
    OtpBody("SEND_OTP", eBad, <<>>) }

VerifyBodies ==
  { OtpBody("VERIFY_OTP", eA, Code(<<"A", "A", "A", "A">>)),
    OtpBody("VERIFY_OTP", eAv, CodeLower),
    OtpBody("VERIFY_OTP", eA, Code(<<"Z", "Z", "9", "9">>)),
    OtpBody("VERIFY_OTP", eB, Code(<<"A", "A", "A", "A">>)),
    OtpBody("VERIFY_OTP", eA, <<"C", "S", "B", "S", "-", "A", "A", "A">>),
    OtpBody("VERIFY_OTP", eA, <<"X", "S", "B", "S", "-", "A", "A", "A", "A">>),
    OtpBody("VERIFY_OTP", eA, <<>>),
    OtpBody("VERIFY_OTP", eBad, Code(<<"A", "A", "A", "A">>)),
    OtpBody("VERIFY_OTP", eBad, <<>>) }

OtpBodies == SendBodies \cup VerifyBodies

\* The bodies of concurrent OTP requests.
OtpRaceBodies ==
  { OtpBody("SEND_OTP", eA, <<>>),
    OtpBody("VERIFY_OTP", eA, Code(<<"A", "A", "A", "A">>)),
    OtpBody("VERIFY_OTP", eA, Code(<<"Z", "Z", "9", "9">>)) }

\* -------------------------------------------------------------- state
Procs == 1..NumReq

VARIABLES
  sheet,            \* the data rows of the "Registrations" sheet
  clock,            \* Date.now()
  pc,               \* where each request is in handleRegister_
  body,             \* its request body
  timestamp,        \* locals of handleRegister_ ...
  lastRow,
  serialNo,
  totalRegistered,
  registrationId,
  ticketNumber,
  newLastRow,
  response,         \* what doPost returned
  myRow,            \* history: the data row the request appended (0: none)
  registered        \* history: the emails of the submissions answered with success

\* The admin OTP service: the script properties, the script lock, the wall
\* clock in minutes, the locals of handleSendOtp_ / handleVerifyOtp_.
VARIABLES
  props,            \* PropertiesService.getScriptProperties(): key -> JSON string
  lock,             \* LockService.getScriptLock(): the request holding it, or 0
  now,              \* new Date(), in minutes
  otp,              \* local otp: the code generated (send) or supplied (verify)
  expiry,           \* local expiry of handleSendOtp_
  adminDoc,         \* local adminDoc
  result,           \* local result of handleVerifyOtp_
  lockoutRaw,       \* local raw of incrementFailedAttempts_
  outbox,           \* history: the mails of the request (OTP: email and code)
  lastStored,       \* history: per email, the code of the latest storeOtp_
  accepts,          \* history: per email, successes since the latest storeOtp_
  mismatches,       \* history: per email, wrong codes compared with the stored code
  failed,           \* history: per email, counted failures since the last
                    \*          success or elapsed lockout, and the time of the last
  props0,           \* history: the properties when the request began
  lookup,           \* history: how the request's directory query ended
  wrote             \* history: the kinds of property writes the request made

\* The router: what doPost received and what it called.
VARIABLES
  postData,         \* e.postData of the request
  handler           \* history: the handler doPost dispatched to ("none": none)

routerVars == << postData, handler >>

\* The admin client: the browser's storage and clock, the state of
\* AdminAuthProvider.
VARIABLES
  localStorage,     \* the item stored under SESSION_KEY, or null
  dateNow,          \* Date.now(), in hours
  session,          \* useState<AdminSession | null> of AdminAuthProvider
  got,              \* history: the getSession call made in the last step, if any
  ended             \* history: why the stored session ended since the last
                    \*          saveSession ("no": it did not)

sessionVars == << localStorage, dateNow, session, got, ended >>

\* The "Events" sheet and the last event request.
VARIABLES
  eventsSheet,      \* whether the sheet exists, and its rows (row 1: the headers)
  eventBody,        \* history: the body of the last event request
  eventResponse,    \* history: what its handler returned
  eventsBefore      \* history: the sheet when that request arrived

eventVars == << eventsSheet, eventBody, eventResponse, eventsBefore >>

\* The registration form of the client.
VARIABLES
  formData,         \* useState<FormData>
  formBefore,       \* history: formData before the last change
  changed           \* history: the field the last change named ("": none)

formVars == << formData, formBefore, changed >>

\* The state outside the registration and OTP handlers.
auxVars == << routerVars, sessionVars, eventVars, formVars >>

otpVars ==
  << props, lock, now, otp, expiry, adminDoc, result, lockoutRaw, outbox,
     lastStored, accepts, mismatches, failed, props0, lookup, wrote >>

regVars ==
  << sheet, clock, timestamp, lastRow, serialNo, totalRegistered,
     registrationId, ticketNumber, newLastRow, myRow, registered >>

vars ==
  << sheet, clock, pc, body, timestamp, lastRow, serialNo, totalRegistered,
     registrationId, ticketNumber, newLastRow, response, myRow, registered,
     props, lock, now, otp, expiry, adminDoc, result, lockoutRaw, outbox,
     lastStored, accepts, mismatches, failed, props0, lookup, wrote,
     postData, handler, localStorage, dateNow, session, got, ended,
     eventsSheet, eventBody, eventResponse, eventsBefore,
     formData, formBefore, changed >>

locals == << timestamp, lastRow, serialNo, totalRegistered,
             registrationId, ticketNumber, newLastRow >>

NoBody == Body(<<>>, <<>>, 0, <<>>)

NoResult == [valid |-> FALSE, reason |-> ""]

\* The state of the OTP service when the properties hold `store` and no
\* request is running.
OtpInit(store) ==
  /\ props = store
  /\ lock = 0
  /\ now = 0
  /\ otp = [p \in Procs |-> <<>>]
  /\ expiry = [p \in Procs |-> 0]
  /\ adminDoc = [p \in Procs |-> null]
  /\ result = [p \in Procs |-> NoResult]
  /\ lockoutRaw = [p \in Procs |-> null]
  /\ outbox = [p \in Procs |-> {}]
  /\ lastStored = [e \in OtpEmails |->
                     IF otpKey(e) \in DOMAIN store
                       THEN JSONparse(store[otpKey(e)]).otp ELSE <<>>]
  /\ accepts = [e \in OtpEmails |-> 0]
  /\ mismatches = [e \in OtpEmails |->
                     IF otpKey(e) \in DOMAIN store /\ lockoutKey(e) \in DOMAIN store
                       THEN JSONparse(store[lockoutKey(e)]).count ELSE 0]
  /\ failed = [e \in OtpEmails |->
                 IF lockoutKey(e) \in DOMAIN store
                   THEN << JSONparse(store[lockoutKey(e)]).count,
                           parseDate(JSONparse(store[lockoutKey(e)]).lastAttempt) >>
                   ELSE <<0, 0>>]
  /\ props0 = [p \in Procs |-> <<>>]
  /\ lookup = [p \in Procs |-> "none"]
  /\ wrote = [p \in Procs |-> {}]

RegInit ==
  /\ sheet = <<>>
  /\ clock = 0
  /\ pc = [p \in Procs |-> "idle"]
  /\ body = [p \in Procs |-> NoBody]
  /\ timestamp = [p \in Procs |-> <<>>]
  /\ lastRow = [p \in Procs |-> 0]
  /\ serialNo = [p \in Procs |-> 0]
  /\ totalRegistered = [p \in Procs |-> 0]
  /\ registrationId = [p \in Procs |-> <<>>]
  /\ ticketNumber = [p \in Procs |-> <<>>]
  /\ newLastRow = [p \in Procs |-> 0]
  /\ response = [p \in Procs |-> NoResponse]
  /\ myRow = [p \in Procs |-> 0]
  /\ registered = {}

\* No request has reached the router.
NoPost == [kind |-> "none", value |-> <<>>]

RouterInit ==
  /\ postData = [p \in Procs |-> NoPost]
  /\ handler = [p \in Procs |-> "none"]

\* No getSession call was made in the last step.
NoCall == [called |-> FALSE, raw |-> <<>>, at |-> 0, result |-> <<>>]

\* A browser that holds no session.
SessionInit ==
  /\ localStorage = <<>>
  /\ dateNow = 0
  /\ session = <<>>
  /\ got = NoCall
  /\ ended = "no"

\* A spreadsheet without the "Events" sheet.
NoSheet == [exists |-> FALSE, rows |-> <<>>]

NoEventBody == [action |-> "none"]

NoEventResponse == [status |-> "none", message |-> "", id |-> <<>>]

EventInit ==
  /\ eventsSheet = NoSheet
  /\ eventBody = NoEventBody
  /\ eventResponse = NoEventResponse
  /\ eventsBefore = NoSheet

\* const initialFormData
initialFormData ==
  [leaderName |-> <<>>, email |-> <<>>, phone |-> <<>>, branch |-> <<>>,
   section |-> <<>>, teamName |-> <<>>, teamSize |-> 1, teamMembers |-> <<>>]

FormInit ==
  /\ formData = initialFormData
  /\ formBefore = initialFormData
  /\ changed = ""

AuxInit == RouterInit /\ SessionInit /\ EventInit /\ FormInit

Init == RegInit /\ OtpInit(<<>>) /\ AuxInit

\* The function returns: its locals are gone.
Return(p, r) ==
  /\ pc' = [pc EXCEPT ![p] = "done"]
  /\ response' = [response EXCEPT ![p] = r]
  /\ timestamp' = [timestamp EXCEPT ![p] = <<>>]
  /\ lastRow' = [lastRow EXCEPT ![p] = 0]
  /\ serialNo' = [serialNo EXCEPT ![p] = 0]
  /\ totalRegistered' = [totalRegistered EXCEPT ![p] = 0]
  /\ registrationId' = [registrationId EXCEPT ![p] = <<>>]
  /\ ticketNumber' = [ticketNumber EXCEPT ![p] = <<>>]
  /\ newLastRow' = [newLastRow EXCEPT ![p] = 0]

Goto(p, label) == pc' = [pc EXCEPT ![p] = label]

\* doPost with action REGISTER, lines 160-228: the fields and the validations.
Begin(p, pool) ==
  /\ pc[p] = "idle"
  /\ Len(sheet) < MaxRows
  /\ \E b \in pool :
       /\ body' = [body EXCEPT ![p] = b]
       /\ IF validate(b) # NoError
            THEN Return(p, buildResponse("error", validate(b), NoData))
            ELSE /\ Goto(p, "lastRow")
                 /\ timestamp' = [timestamp EXCEPT ![p] =
                      IF b.timestamp = <<>> THEN toISOString(clock) ELSE b.timestamp]
                 /\ UNCHANGED << lastRow, serialNo, totalRegistered, registrationId,
                                 ticketNumber, newLastRow, response >>
  /\ UNCHANGED << sheet, clock, myRow, registered >>
  /\ UNCHANGED otpVars
  /\ UNCHANGED auxVars

\* Line 250: var lastRow = sheet.getLastRow().
ReadLastRow(p) ==
  /\ pc[p] = "lastRow"
  /\ lastRow' = [lastRow EXCEPT ![p] = Len(sheet) + 1]
  /\ Goto(p, IF Len(sheet) + 1 > 1 THEN "scan" ELSE "serial")
  /\ UNCHANGED << sheet, clock, body, timestamp, serialNo, totalRegistered,
                  registrationId, ticketNumber, newLastRow, response, myRow,
                  registered >>
  /\ UNCHANGED otpVars
  /\ UNCHANGED auxVars

\* Lines 252-285: getValues of rows 2..lastRow and the two conflict checks.
ScanDuplicates(p) ==
  /\ pc[p] = "scan"
  /\ LET allData == SubSeq(sheet, 1, lastRow[p] - 1)
         err     == checkDuplicates(body[p], allData)
     IN  IF err # NoError
           THEN Return(p, buildResponse("error", err, NoData))
           ELSE /\ Goto(p, "serial")
                /\ UNCHANGED << locals, response >>
  /\ UNCHANGED << sheet, clock, body, myRow, registered >>
  /\ UNCHANGED otpVars
  /\ UNCHANGED auxVars

\* Line 288: var serialNo = sheet.getLastRow().
ReadSerialNo(p) ==
  /\ pc[p] = "serial"
  /\ serialNo' = [serialNo EXCEPT ![p] = Len(sheet) + 1]
  /\ Goto(p, "append")
  /\ UNCHANGED << sheet, clock, body, timestamp, lastRow, totalRegistered,
                  registrationId, ticketNumber, newLastRow, response, myRow,
                  registered >>
  /\ UNCHANGED otpVars
  /\ UNCHANGED auxVars

\* Line 322: sheet.appendRow(row).
AppendRow(p) ==
  /\ pc[p] = "append"
  /\ sheet' = Append(sheet, buildRow(serialNo[p], timestamp[p], body[p]))
  /\ myRow' = [myRow EXCEPT ![p] = Len(sheet) + 1]
  /\ Goto(p, "total")
  /\ UNCHANGED << clock, body, locals, response, registered >>
  /\ UNCHANGED otpVars
  /\ UNCHANGED auxVars

\* Line 333: var totalRegistered = sheet.getLastRow() - 1.
ReadTotal(p) ==
  /\ pc[p] = "total"
  /\ totalRegistered' = [totalRegistered EXCEPT ![p] = (Len(sheet) + 1) - 1]
  /\ Goto(p, "ids")
  /\ UNCHANGED << sheet, clock, body, timestamp, lastRow, serialNo,
                  registrationId, ticketNumber, newLastRow, response, myRow,
                  registered >>
  /\ UNCHANGED otpVars
  /\ UNCHANGED auxVars

\* Lines 336-346: the identifiers from the clock and three random characters,
\* then var newLastRow = sheet.getLastRow().
GenerateIds(p) ==
  /\ pc[p] = "ids"
  /\ \E regTimestamp \in clock..MaxClock, ticketSuffix \in TicketSuffixes :
       /\ clock' = regTimestamp
       /\ registrationId' = [registrationId EXCEPT ![p] = <<"CSBS-", regTimestamp>>]
       /\ ticketNumber' = [ticketNumber EXCEPT ![p] =
                             <<"TKT-", regTimestamp, "-", ticketSuffix>>]
  /\ newLastRow' = [newLastRow EXCEPT ![p] = Len(sheet) + 1]
  /\ Goto(p, "setId")
  /\ UNCHANGED << sheet, body, timestamp, lastRow, serialNo, totalRegistered,
                  response, myRow, registered >>
  /\ UNCHANGED otpVars
  /\ UNCHANGED auxVars

\* Range.setValue on one cell of sheet row `row` (1 is the header), column `col`.
setValue(sh, row, col, value) == [sh EXCEPT ![row - 1][col] = value]

\* Line 347: sheet.getRange(newLastRow, 3).setValue(registrationId).
SetRegistrationId(p) ==
  /\ pc[p] = "setId"
  /\ sheet' = setValue(sheet, newLastRow[p], 3, registrationId[p])
  /\ Goto(p, "setTicket")
  /\ UNCHANGED << clock, body, locals, response, myRow, registered >>
  /\ UNCHANGED otpVars
  /\ UNCHANGED auxVars

\* Line 348: sheet.getRange(newLastRow, 4).setValue(ticketNumber).
SetTicketNumber(p) ==
  /\ pc[p] = "setTicket"
  /\ sheet' = setValue(sheet, newLastRow[p], 4, ticketNumber[p])
  /\ Goto(p, "respond")
  /\ UNCHANGED << clock, body, locals, response, myRow, registered >>
  /\ UNCHANGED otpVars
  /\ UNCHANGED auxVars

\* sendRegistrationConfirmationEmail_, lines 929-942: the keys of allEmails,
\* the leader email and every non-empty member email, each once.
emailList(data) ==
  {toLowerCase(data.email)} \cup
    ({ toLowerCase(trim(data.teamMembers[i].email)) :
         i \in 1..Len(data.teamMembers) } \ {<<>>})

\* The confirmation mail of one recipient and whether GmailApp.sendEmail
\* delivered it.
Mail(to, ok, regId, ticket) ==
  [to |-> to, ok |-> ok, registrationId |-> regId, ticketNumber |-> ticket]

\* The OTP service's variables that a REGISTER leaves alone.
otpIdle ==
  << props, lock, now, otp, expiry, adminDoc, result, lockoutRaw,
     lastStored, accepts, mismatches, failed, props0, lookup, wrote >>

\* Lines 350-378 where a failed send is not caught: doPost answers with the
\* internal error.
Respond_MailFatal(p) ==
  /\ pc[p] = "respond"
  /\ LET data == [email |-> toLowerCase(trim(body[p].email)),
                  teamMembers |-> body[p].teamMembers]
     IN  \E undelivered \in SUBSET emailList(data) :
           /\ outbox' = [outbox EXCEPT ![p] =
                 { Mail(to, to \notin undelivered, registrationId[p], ticketNumber[p]) :
                     to \in emailList(data) }]
           /\ Return(p, IF undelivered # {}
                          THEN buildResponse("error",
                                 Msg("Internal server error: $", 0, <<>>), NoData)
                          ELSE buildResponse("success",
                                 Msg("Registration successful! Welcome aboard, $.", 0,
                                     trim(body[p].leaderName)),
                                 [serialNo |-> serialNo[p],
                                  email |-> toLowerCase(trim(body[p].email)),
                                  totalRegistered |-> totalRegistered[p],
                                  registrationId |-> registrationId[p],
                                  ticketNumber |-> ticketNumber[p]]))
  /\ registered' = registered \cup
                     { submissionEmailsOf(body[p]).emails[i] :
                         i \in 1..Len(submissionEmailsOf(body[p]).emails) }
  /\ UNCHANGED << sheet, clock, body, myRow >>
  /\ UNCHANGED otpIdle
  /\ UNCHANGED auxVars

\* Lines 350-378: the confirmation email to every recipient (a send that
\* throws, for some recipients or before the first, is logged and dropped),
\* then the success response.
Respond(p) ==
  /\ pc[p] = "respond"
  /\ LET data == [email |-> toLowerCase(trim(body[p].email)),
                  teamMembers |-> body[p].teamMembers]
     IN  \E undelivered \in SUBSET emailList(data) :
           outbox' = [outbox EXCEPT ![p] =
             { Mail(to, to \notin undelivered, registrationId[p], ticketNumber[p]) :
                 to \in emailList(data) }]
  /\ Return(p, buildResponse("success",
                 Msg("Registration successful! Welcome aboard, $.", 0,
                     trim(body[p].leaderName)),
                 [serialNo |-> serialNo[p],
                  email |-> toLowerCase(trim(body[p].email)),
                  totalRegistered |-> totalRegistered[p],
                  registrationId |-> registrationId[p],
                  ticketNumber |-> ticketNumber[p]]))
  /\ registered' = registered \cup
                     { submissionEmailsOf(body[p]).emails[i] :
                         i \in 1..Len(submissionEmailsOf(body[p]).emails) }
  /\ UNCHANGED << sheet, clock, body, myRow >>
  /\ UNCHANGED otpIdle
  /\ UNCHANGED auxVars

\* The labels at which the next statement is a call of the spreadsheet service.
SheetCalls == {"lastRow", "scan", "serial", "append", "total", "ids", "setId", "setTicket"}

\* The spreadsheet call throws; doPost (lines 137-140) answers with the
\* internal error.
SheetFail(p) ==
  /\ pc[p] \in SheetCalls
  /\ Return(p, buildResponse("error", Msg("Internal server error: $", 0, <<>>), NoData))
  /\ UNCHANGED << sheet, clock, body, myRow, registered >>
  /\ UNCHANGED otpVars
  /\ UNCHANGED auxVars

\* The next request of a client that has its answer.
Finish(p) ==
  /\ pc[p] = "done"
  /\ Goto(p, "idle")
  /\ body' = [body EXCEPT ![p] = NoBody]
  /\ response' = [response EXCEPT ![p] = NoResponse]
  /\ myRow' = [myRow EXCEPT ![p] = 0]
  /\ outbox' = [outbox EXCEPT ![p] = {}]
  /\ UNCHANGED << sheet, clock, locals, registered >>
  /\ UNCHANGED otpIdle
  /\ UNCHANGED auxVars

Step(p) ==
  \/ ReadLastRow(p)
  \/ ScanDuplicates(p)
  \/ ReadSerialNo(p)
  \/ AppendRow(p)
  \/ ReadTotal(p)
  \/ GenerateIds(p)
  \/ SetRegistrationId(p)
  \/ SetTicketNumber(p)
  \/ Respond(p)
  \/ SheetFail(p)

\* Concurrent requests, one per client.
Next == \E p \in Procs : Begin(p, RaceBodies) \/ Step(p)

Spec == Init /\ [][Next]_vars

\* One client: each request runs to its response before the next begins.
SeqNext == Begin(1, Bodies) \/ Step(1) \/ Finish(1)

SeqSpec == Init /\ [][SeqNext]_vars

\* ============================================================== claims
\* The cell of a row at the code's 0-based column index.
Cell(row, col) == row[col + 1]

Norm(s) == toLowerCase(trim(s))

Done(p) == pc[p] = "done"

Succeeded(p) == Done(p) /\ response[p].status = "success"

Rejected(p) == Done(p) /\ response[p].status = "error"

InternalError(p) == Rejected(p) /\ response[p].message.text = "Internal server error: $"

\* The request passed every validation and conflict check and has not answered yet.
Writing(p) == pc[p] \in {"serial", "append", "total", "ids", "setId", "setTicket", "respond"}

\* The rows that were in the sheet before the request appended its own.
RowsBefore(p) == IF myRow[p] = 0 THEN sheet ELSE SubSeq(sheet, 1, myRow[p] - 1)

\* The leader email and every member email of a request body, normalised.
EmailsOf(b) ==
  {Norm(b.email)} \cup {Norm(b.teamMembers[i].email) : i \in 1..Len(b.teamMembers)}

EmailTakenText == "Email '$' is already registered. Each person can only register once."

TeamTakenText == "Team name '$' is already taken. Please choose a different name."

\* The emails in the leader/member cells of the rows.
EmailsIn(rows) ==
  { Norm(Cell(rows[r], emailColIndices[i])) :
      r \in 1..Len(rows), i \in 1..Len(emailColIndices) } \ {<<>>}

\* C1: a REGISTER that shares an email (trimmed, lower-cased; leader or member,
\* in either submission) with an earlier successful submission never gets past
\* the checks to write a row, and the email conflict it is answered with names
\* an email the submission shares with the rows.
C1_SequentialDuplicateRejected ==
  \A p \in Procs :
    /\ Writing(p) => EmailsOf(body[p]) \cap registered = {}
    /\ (Rejected(p) /\ response[p].message.text = EmailTakenText)
         => response[p].message.str \in EmailsOf(body[p]) \cap EmailsIn(sheet)

\* The non-blank leader/member email cells of the sheet, as <<row, column>>.
EmailCells ==
  { rc \in (1..Len(sheet)) \X {emailColIndices[i] : i \in 1..Len(emailColIndices)} :
      Norm(Cell(sheet[rc[1]], rc[2])) # <<>> }

\* C2: in every reachable state, under any interleaving of concurrent REGISTER
\* requests, no email occurs in more than one leader/member email cell.
C2_EmailsGloballyUnique ==
  \A x, y \in EmailCells :
    x # y => Norm(Cell(sheet[x[1]], x[2])) # Norm(Cell(sheet[y[1]], y[2]))

\* C4: a submission is accepted (gets a row or a success) only with teamSize >= 1
\* and exactly teamSize - 1 member entries.
C4_MemberCountEnforced ==
  \A p \in Procs :
    (myRow[p] # 0 \/ Succeeded(p)) =>
      /\ parseTeamSize(body[p].teamSize) >= 1
      /\ Len(body[p].teamMembers) = parseTeamSize(body[p].teamSize) - 1

\* The member groups of a row that carry a name.
NamedMembers(row) == {m \in 0..3 : trim(Cell(row, 11 + 5 * m)) # <<>>}

\* C5: every row written has teamSize >= 1 and teamSize - 1 member groups with
\* a non-empty name.
C5_RowTeamSizeMatchesMembers ==
  \A r \in 1..Len(sheet) :
    /\ Cell(sheet[r], 10) >= 1
    /\ Cell(sheet[r], 10) - 1 = Cardinality(NamedMembers(sheet[r]))

\* The team name of the body is, trimmed and lower-cased, that of one of the rows.
TeamMatches(b, rows) ==
  /\ trim(b.teamName) # <<>>
  /\ \E r \in 1..Len(rows) : Norm(Cell(rows[r], 4)) = Norm(b.teamName)

\* C3: under sequential requests no two rows have the same non-empty team name
\* (trimmed, lower-cased); a REGISTER whose non-empty team name matches a row
\* is rejected and appends no row, with the error naming the team when no
\* earlier check fails; an empty team name never conflicts.
C3_TeamNamesUnique ==
  /\ \A i, j \in 1..Len(sheet) :
       (i # j /\ Norm(Cell(sheet[i], 4)) # <<>>)
         => Norm(Cell(sheet[i], 4)) # Norm(Cell(sheet[j], 4))
  /\ \A p \in Procs :
       /\ TeamMatches(body[p], RowsBefore(p)) => (myRow[p] = 0 /\ ~Writing(p) /\ ~Succeeded(p))
       /\ (Rejected(p) /\ response[p].message.text = TeamTakenText)
            => /\ response[p].message.str = trim(body[p].teamName)
               /\ TeamMatches(body[p], sheet)
       /\ ( /\ Rejected(p) /\ ~InternalError(p)
            /\ TeamMatches(body[p], sheet)
            /\ validate(body[p]) = NoError
            /\ EmailsOf(body[p]) \cap EmailsIn(sheet) = {} )
            => response[p].message.text = TeamTakenText

\* A request was refused for a team name that differs from the row's in case.
C3_Witness ==
  \E p \in Procs :
    /\ Rejected(p)
    /\ response[p].message.text = TeamTakenText
    /\ \E r \in 1..Len(sheet) :
         /\ Norm(Cell(sheet[r], 4)) = Norm(body[p].teamName)
         /\ Cell(sheet[r], 4) # trim(body[p].teamName)

\* The five field checks pass for a member entry.
MemberFieldsValid(tm) ==
  /\ trim(tm.name) # <<>>
  /\ isVishnuEmail_(Norm(tm.email))
  /\ digitCount(trim(tm.phone)) = 10
  /\ trim(tm.branch) # <<>>
  /\ trim(tm.section) # <<>>

\* Every member entry is valid and its email is that of nobody else, in the
\* submission or in the rows.
ExtrasClean(b, rows) ==
  /\ \A i \in 1..Len(b.teamMembers) :
       /\ MemberFieldsValid(b.teamMembers[i])
       /\ Norm(b.teamMembers[i].email) \notin EmailsIn(rows)
  /\ Cardinality(EmailsOf(b)) = Len(b.teamMembers) + 1

Emptied(b) == [b EXCEPT !.teamMembers = <<>>]

\* The status REGISTER answers a body with, given the rows of the sheet.
OutcomeStatus(b, rows) ==
  IF validate(b) # NoError \/ checkDuplicates(b, rows) # NoError
    THEN "error" ELSE "success"

SoloWithMembers(p) ==
  /\ Done(p) /\ ~InternalError(p)
  /\ parseTeamSize(body[p].teamSize) = 1
  /\ Len(body[p].teamMembers) > 0

\* C6 as stated: with teamSize = 1 the outcome is that of the same body with
\* teamMembers emptied.
C6_SoloMembersIgnored ==
  \A p \in Procs :
    SoloWithMembers(p)
      => response[p].status = OutcomeStatus(Emptied(body[p]), RowsBefore(p))

\* C6 amended: with teamSize = 1 the member entries are validated and checked
\* for duplicates like those of a team.  Valid entries with emails of nobody
\* else leave the outcome that of the body with teamMembers emptied; an
\* invalid or duplicate entry makes the request fail.
C6_SoloMembersValidated ==
  \A p \in Procs :
    SoloWithMembers(p)
      => IF ExtrasClean(body[p], RowsBefore(p))
           THEN response[p].status = OutcomeStatus(Emptied(body[p]), RowsBefore(p))
           ELSE Rejected(p)

\* A teamSize = 1 request refused only because of a member entry.
C6_Witness ==
  \E p \in Procs :
    /\ SoloWithMembers(p)
    /\ Rejected(p)
    /\ OutcomeStatus(Emptied(body[p]), sheet) = "success"

Min(S) == CHOOSE x \in S : \A y \in S : x <= y

Check(fails, msg) == [fails |-> fails, msg |-> msg]

\* The leader checks in the order of the claim.
LeaderChecks(b) ==
  << Check(trim(b.leaderName) = <<>>, Msg("Leader name is required.", 0, <<>>)),
     Check(~isVishnuEmail_(Norm(b.email)),
           Msg("A valid @vishnu.edu.in email is required.", 0, <<>>)),
     Check(digitCount(trim(b.phone)) # 10,
           Msg("A valid 10-digit phone number is required.", 0, <<>>)),
     Check(trim(b.branch) = <<>>, Msg("Branch is required.", 0, <<>>)),
     Check(trim(b.section) = <<>>, Msg("Section is required.", 0, <<>>)),
     Check(parseTeamSize(b.teamSize) > 1 /\ trim(b.teamName) = <<>>,
           Msg("Team name is required for teams.", 0, <<>>)) >>

\* The checks of the member at 0-based index v, the message with ordinal v + 2.
MemberChecks(tm, v) ==
  << Check(trim(tm.name) = <<>>, Msg("Member # name is required.", v + 2, <<>>)),
     Check(~isVishnuEmail_(Norm(tm.email)),
           Msg("Member # requires a valid @vishnu.edu.in email.", v + 2, <<>>)),
     Check(digitCount(trim(tm.phone)) # 10,
           Msg("Member # requires a valid 10-digit phone number.", v + 2, <<>>)),
     Check(trim(tm.branch) = <<>>, Msg("Member # branch is required.", v + 2, <<>>)),
     Check(trim(tm.section) = <<>>, Msg("Member # section is required.", v + 2, <<>>)) >>

\* The emails of the submission in order: the leader, then the members.
EmailList(b) ==
  <<Norm(b.email)>> \o [i \in 1..Len(b.teamMembers) |-> Norm(b.teamMembers[i].email)]

\* The positions of EmailList that repeat an earlier one.
Repeats(b) ==
  {j \in 1..Len(EmailList(b)) : \E i \in 1..(j - 1) : EmailList(b)[i] = EmailList(b)[j]}

\* The positions of EmailList that are in the rows.
Taken(b, rows) == {i \in 1..Len(EmailList(b)) : EmailList(b)[i] \in EmailsIn(rows)}

\* No storage is read for these.
FormatChecks(b) ==
  LeaderChecks(b)
  \o [k \in 1..(5 * Len(b.teamMembers)) |->
        MemberChecks(b.teamMembers[((k - 1) \div 5) + 1], (k - 1) \div 5)[((k - 1) % 5) + 1]]
  \o << Check(Repeats(b) # {},
              Msg("Duplicate email within submission: $. Each member must have a unique email.",
                  0, IF Repeats(b) = {} THEN <<>> ELSE EmailList(b)[Min(Repeats(b))])) >>

\* These read the rows.
StorageChecks(b, rows) ==
  << Check(Taken(b, rows) # {},
           Msg(EmailTakenText, 0,
               IF Taken(b, rows) = {} THEN <<>> ELSE EmailList(b)[Min(Taken(b, rows))])),
     Check(TeamMatches(b, rows), Msg(TeamTakenText, 0, trim(b.teamName))) >>

Failing(checks) == {i \in 1..Len(checks) : checks[i].fails}

\* C7: REGISTER answers with the first failing check of the fixed order (leader
\* name, email, phone, branch, section, team name, each member's name, email,
\* phone, branch, section with ordinal index + 2, duplicate within the
\* submission, email conflict, team-name conflict), with success when none
\* fails, and reads no storage before the format and in-submission checks pass.
C7_FirstFailingCheckInOrder ==
  \A p \in Procs :
    /\ (pc[p] \in SheetCalls \cup {"respond"}) => Failing(FormatChecks(body[p])) = {}
    /\ (Done(p) /\ ~InternalError(p)) =>
         LET checks == FormatChecks(body[p]) \o StorageChecks(body[p], RowsBefore(p))
         IN  IF Failing(checks) = {}
               THEN Succeeded(p)
               ELSE /\ Rejected(p)
                    /\ response[p].message = checks[Min(Failing(checks))].msg

\* A request with several failing checks, refused for a member field.
C7_Witness ==
  \E p \in Procs :
    /\ Rejected(p)
    /\ response[p].message.num >= 2
    /\ Cardinality(Failing(FormatChecks(body[p]))) >= 2

\* C8: a REGISTER that ends with an error response has appended no row, and one
\* that ends with success has appended a row that carries both identifiers.
C8_NoPartialWrite ==
  \A p \in Procs :
    /\ Rejected(p) => myRow[p] = 0
    /\ Succeeded(p) =>
         /\ myRow[p] # 0
         /\ Cell(sheet[myRow[p]], 2) # <<>>
         /\ Cell(sheet[myRow[p]], 3) # <<>>

\* The requests share no email, so that none conflicts with another.
Unrelated ==
  \A p, q \in Procs :
    (p # q /\ pc[p] # "idle" /\ pc[q] # "idle")
      => EmailsOf(body[p]) \cap EmailsOf(body[q]) = {}

\* C9: the k-th data row carries serialNo k, so no serialNo is used twice,
\* whatever the interleaving of concurrent requests (here: of requests that
\* share no email).
C9_SerialNumbersAreRowIndices ==
  Unrelated => \A k \in 1..Len(sheet) : Cell(sheet[k], 0) = k

\* C10: once every concurrent request has completed, none of them with an
\* internal error and no two of them sharing an email, the row each successful
\* request appended holds the registrationId and ticketNumber of its response.
C10_IdsPatchedIntoOwnRow ==
  ((\A q \in Procs : pc[q] \in {"idle", "done"} /\ ~InternalError(q)) /\ Unrelated) =>
    \A p \in Procs :
      Succeeded(p) =>
        /\ Cell(sheet[myRow[p]], 2) = response[p].data.registrationId
        /\ Cell(sheet[myRow[p]], 3) = response[p].data.ticketNumber

\* ===================================== handleSendOtp_, handleVerifyOtp_
otpLocals == << otp, expiry, adminDoc, result, lockoutRaw >>

history == << outbox, lastStored, accepts, mismatches, failed >>

kept == << lastStored, accepts, mismatches, failed >>

\* var email = (body.email || "").toString().trim().toLowerCase()
emailOf(b) == toLowerCase(trim(b.email))

\* var otp = (body.otp || "").toString().trim().toUpperCase()
otpOf(b) == toUpperCase(trim(b.otp))

IsSend(p) == body[p].action = "SEND_OTP"

InvalidEmailText == "Invalid email format."

InvalidOtpText == "Invalid OTP format. Expected format: $XXXX"

SendLockedText == "Too many attempts. Please try again after $ minutes."

VerifyLockedText == "Too many failed attempts. Please try again after $ minutes."

NotAuthorizedText == "This email is not authorized for admin access."

Error(text) == buildResponse("error", Msg(text, 0, <<>>), NoData)

\* err.toString() of the exceptions of lock.waitLock and GmailApp.sendEmail.
LockErr == <<"lock.waitLock">>

MailErr == <<"GmailApp.sendEmail">>

\* doPost, lines 137-140: the answer to an exception of the handler.
Thrown(err) == buildResponse("error", Msg("Internal server error: $", 0, err), NoData)

\* The handler returns: its locals are gone.
OtpReturn(p, r) ==
  /\ pc' = [pc EXCEPT ![p] = "done"]
  /\ response' = [response EXCEPT ![p] = r]
  /\ otp' = [otp EXCEPT ![p] = <<>>]
  /\ expiry' = [expiry EXCEPT ![p] = 0]
  /\ adminDoc' = [adminDoc EXCEPT ![p] = null]
  /\ result' = [result EXCEPT ![p] = NoResult]
  /\ lockoutRaw' = [lockoutRaw EXCEPT ![p] = null]

\* history: a success, or a lockout that has elapsed, ends the run of failures.
Forgiven(f, e) == [f EXCEPT ![e] = <<0, 0>>]

Elapsed(f, e, t) == f[e][1] >= MAX_FAILED_ATTEMPTS /\ t >= f[e][2] + LOCKOUT_MINUTES

\* doPost with action SEND_OTP or VERIFY_OTP: the fields, the format checks
\* and isLockedOut_ (lines 673-683 and 720-738).
OtpBegin(p, pool) ==
  /\ pc[p] = "idle"
  /\ \E b \in pool :
       LET email == emailOf(b)
           code  == otpOf(b)
           send  == b.action = "SEND_OTP"
           lo    == isLockedOut_(props, email, now)
       IN  /\ body' = [body EXCEPT ![p] = b]
           /\ props0' = [props0 EXCEPT ![p] = props]
           /\ lookup' = [lookup EXCEPT ![p] = "none"]
           /\ IF ~isValidEmail_(email)
                THEN /\ OtpReturn(p, Error(InvalidEmailText))
                     /\ UNCHANGED << props, wrote, failed >>
              ELSE IF ~send /\ ~isValidOtpFormat(code)
                THEN /\ OtpReturn(p, buildResponse("error",
                                       Msg(InvalidOtpText, 0, OTP_PREFIX), NoData))
                     /\ UNCHANGED << props, wrote, failed >>
              ELSE /\ props' = lo.props
                   /\ wrote' = [wrote EXCEPT ![p] =
                                  IF lo.props # props THEN {"elapsed"} ELSE {}]
                   /\ failed' = IF Elapsed(failed, email, now)
                                  THEN Forgiven(failed, email) ELSE failed
                   /\ IF lo.locked
                        THEN OtpReturn(p, buildResponse("error",
                               Msg(IF send THEN SendLockedText ELSE VerifyLockedText,
                                   LOCKOUT_MINUTES, <<>>), NoData))
                        ELSE /\ Goto(p, IF send THEN "admin" ELSE "acquire")
                             /\ otp' = [otp EXCEPT ![p] = IF send THEN <<>> ELSE code]
                             /\ UNCHANGED << expiry, adminDoc, result, lockoutRaw,
                                             response >>
  /\ UNCHANGED << lock, now, outbox, lastStored, accepts, mismatches >>
  /\ UNCHANGED regVars
  /\ UNCHANGED auxVars

\* Lines 685-694 of handleSendOtp_: the directory query, then generateOtp_
\* and the expiry.
LookupAdmin(p) ==
  /\ pc[p] = "admin"
  /\ \E outcome \in LookupOutcomes, draw \in OtpDraws :
       LET doc == getFirestoreAdmin_(emailOf(body[p]), outcome)
       IN  /\ lookup' = [lookup EXCEPT ![p] = outcome]
           /\ adminDoc' = [adminDoc EXCEPT ![p] = doc]
           /\ IF doc = null
                THEN /\ Goto(p, "incrRead")
                     /\ UNCHANGED << otp, expiry >>
                ELSE /\ Goto(p, "acquire")
                     /\ otp' = [otp EXCEPT ![p] = generateOtp_(draw)]
                     /\ expiry' = [expiry EXCEPT ![p] = now + OTP_EXPIRY_MINUTES]
  /\ UNCHANGED << props, lock, now, result, lockoutRaw, history, props0, wrote,
                  body, response >>
  /\ UNCHANGED regVars
  /\ UNCHANGED auxVars

\* lock.waitLock that takes the lock although another request holds it.
Acquire_Unguarded(p) ==
  /\ pc[p] = "acquire"
  /\ lock' = p
  /\ Goto(p, IF IsSend(p) THEN "store" ELSE "verify")
  /\ UNCHANGED << props, now, otpLocals, history, props0, lookup, wrote,
                  body, response >>
  /\ UNCHANGED regVars
  /\ UNCHANGED auxVars

\* lock.waitLock(10000) returns: the lock was free.
Acquire(p) ==
  /\ pc[p] = "acquire"
  /\ lock = 0
  /\ lock' = p
  /\ Goto(p, IF IsSend(p) THEN "store" ELSE "verify")
  /\ UNCHANGED << props, now, otpLocals, history, props0, lookup, wrote,
                  body, response >>
  /\ UNCHANGED regVars
  /\ UNCHANGED auxVars

\* lock.waitLock that, on its timeout, counts a failed attempt.
LockTimeout_Counted(p) ==
  /\ pc[p] = "acquire"
  /\ lock # 0
  /\ props' = setProperty(props, lockoutKey(emailOf(body[p])),
                incrementFailedAttempts_(
                  getProperty(props, lockoutKey(emailOf(body[p]))), now))
  /\ wrote' = [wrote EXCEPT ![p] = @ \cup {"incr"}]
  /\ OtpReturn(p, Thrown(LockErr))
  /\ UNCHANGED << lock, now, history, props0, lookup, body >>
  /\ UNCHANGED regVars
  /\ UNCHANGED auxVars

\* lock.waitLock(10000) throws: another request held the lock for the whole
\* wait.  finally releases nothing, doPost (lines 137-140) answers.
LockTimeout(p) ==
  /\ pc[p] = "acquire"
  /\ lock # 0
  /\ OtpReturn(p, Thrown(LockErr))
  /\ UNCHANGED << props, lock, now, history, props0, lookup, wrote, body >>
  /\ UNCHANGED regVars
  /\ UNCHANGED auxVars

\* Line 699: storeOtp_(email, otp, expiry), under the lock.
StoreOtp(p) ==
  /\ pc[p] = "store"
  /\ LET email == emailOf(body[p])
     IN  /\ props' = storeOtp_(props, email, otp[p], expiry[p], now)
         /\ lastStored' = [lastStored EXCEPT ![email] = otp[p]]
         /\ accepts' = [accepts EXCEPT ![email] = 0]
         /\ mismatches' = [mismatches EXCEPT ![email] = 0]
  /\ wrote' = [wrote EXCEPT ![p] = @ \cup {"otp"}]
  /\ Goto(p, "release")
  /\ UNCHANGED << lock, now, otpLocals, outbox, failed, props0, lookup,
                  body, response >>
  /\ UNCHANGED regVars
  /\ UNCHANGED auxVars

\* Line 745: result = verifyAndConsumeOtp_(email, otp), under the lock.
VerifyOtp(p) ==
  /\ pc[p] = "verify"
  /\ LET email == emailOf(body[p])
         v     == verifyAndConsumeOtp_(props, email, otp[p], now)
     IN  /\ props' = v.props
         /\ result' = [result EXCEPT ![p] = [valid |-> v.valid, reason |-> v.reason]]
         /\ accepts' = [accepts EXCEPT ![email] = IF v.valid THEN @ + 1 ELSE @]
         /\ mismatches' = [mismatches EXCEPT ![email] =
                              IF v.reason = MismatchText THEN @ + 1 ELSE @]
         /\ wrote' = [wrote EXCEPT ![p] = IF v.props # props THEN @ \cup {"used"} ELSE @]
  /\ Goto(p, "release")
  /\ UNCHANGED << lock, now, otp, expiry, adminDoc, lockoutRaw, outbox,
                  lastStored, failed, props0, lookup, body, response >>
  /\ UNCHANGED regVars
  /\ UNCHANGED auxVars

\* finally { lock.releaseLock() }
ReleaseLock(p) ==
  /\ pc[p] = "release"
  /\ lock' = 0
  /\ Goto(p, IF IsSend(p) THEN "mail"
             ELSE IF result[p].valid THEN "welcome" ELSE "incrRead")
  /\ UNCHANGED << props, now, otpLocals, history, props0, lookup, wrote,
                  body, response >>
  /\ UNCHANGED regVars
  /\ UNCHANGED auxVars

\* incrementFailedAttempts_, its getProperty.
IncrRead(p) ==
  /\ pc[p] = "incrRead"
  /\ lockoutRaw' = [lockoutRaw EXCEPT ![p] =
                      getProperty(props, lockoutKey(emailOf(body[p])))]
  /\ Goto(p, "incrWrite")
  /\ UNCHANGED << props, lock, now, otp, expiry, adminDoc, result, history,
                  props0, lookup, wrote, body, response >>
  /\ UNCHANGED regVars
  /\ UNCHANGED auxVars

\* incrementFailedAttempts_, its setProperty; then the error response
\* (lines 689 and 752).
IncrWrite(p) ==
  /\ pc[p] = "incrWrite"
  /\ LET email == emailOf(body[p])
     IN  /\ props' = setProperty(props, lockoutKey(email),
                       incrementFailedAttempts_(lockoutRaw[p], now))
         /\ failed' = [failed EXCEPT ![email] = <<@[1] + 1, now>>]
  /\ wrote' = [wrote EXCEPT ![p] = @ \cup {"incr"}]
  /\ OtpReturn(p, Error(IF IsSend(p) THEN NotAuthorizedText ELSE result[p].reason))
  /\ UNCHANGED << lock, now, outbox, lastStored, accepts, mismatches, props0,
                  lookup, body >>
  /\ UNCHANGED regVars
  /\ UNCHANGED auxVars

\* sendOtpEmail_ (lines 1114-1122): GmailApp.sendEmail returns, or throws.
sendOtpEmail_ == BOOLEAN

\* Lines 705-714 of handleSendOtp_: sendOtpEmail_, resetFailedAttempts_, the
\* success response; an exception of sendOtpEmail_ leaves the handler and
\* doPost (lines 137-140) answers.
SendOtpEmail(p) ==
  /\ pc[p] = "mail"
  /\ \E sent \in sendOtpEmail_ :
       LET email == emailOf(body[p])
       IN  IF sent
             THEN /\ outbox' = [outbox EXCEPT ![p] = @ \cup {<<email, otp[p]>>}]
                  /\ props' = resetFailedAttempts_(props, email)
                  /\ failed' = Forgiven(failed, email)
                  /\ OtpReturn(p, buildResponse("success",
                                    Msg("Access code sent to your email.", 0, <<>>),
                                    [email |-> email, expiresIn |-> OTP_EXPIRY_MINUTES]))
                  /\ wrote' = [wrote EXCEPT ![p] = @ \cup {"reset"}]
             ELSE /\ OtpReturn(p, Thrown(MailErr))
                  /\ UNCHANGED << outbox, props, failed, wrote >>
  /\ UNCHANGED << lock, now, lastStored, accepts, mismatches, props0, lookup, body >>
  /\ UNCHANGED regVars
  /\ UNCHANGED auxVars

\* Lines 755-765 of handleVerifyOtp_: the directory query,
\* resetFailedAttempts_, the success response.
Welcome(p) ==
  /\ pc[p] = "welcome"
  /\ \E outcome \in LookupOutcomes :
       LET email == emailOf(body[p])
           doc   == getFirestoreAdmin_(email, outcome)
       IN  /\ lookup' = [lookup EXCEPT ![p] = outcome]
           /\ props' = resetFailedAttempts_(props, email)
           /\ failed' = Forgiven(failed, email)
           /\ OtpReturn(p, buildResponse("success",
                 Msg("OTP verified successfully. Welcome!", 0, <<>>),
                 [email |-> email,
                  name |-> IF doc # null THEN doc.name ELSE <<"A", "d", "m", "i", "n">>,
                  role |-> IF doc # null THEN doc.role ELSE <<"a", "d", "m", "i", "n">>,
                  verified |-> TRUE]))
  /\ wrote' = [wrote EXCEPT ![p] = @ \cup {"reset"}]
  /\ UNCHANGED << lock, now, outbox, lastStored, accepts, mismatches, props0, body >>
  /\ UNCHANGED regVars
  /\ UNCHANGED auxVars

\* Time passes between requests.
Tick ==
  /\ \A p \in Procs : pc[p] = "idle"
  /\ now + TickMinutes <= MaxTime
  /\ now' = now + TickMinutes
  /\ UNCHANGED << props, lock, otpLocals, history, props0, lookup, wrote,
                  pc, body, response >>
  /\ UNCHANGED regVars
  /\ UNCHANGED auxVars

\* The next request of a client that has its answer.
OtpFinish(p) ==
  /\ pc[p] = "done"
  /\ Goto(p, "idle")
  /\ body' = [body EXCEPT ![p] = NoBody]
  /\ response' = [response EXCEPT ![p] = NoResponse]
  /\ props0' = [props0 EXCEPT ![p] = <<>>]
  /\ lookup' = [lookup EXCEPT ![p] = "none"]
  /\ wrote' = [wrote EXCEPT ![p] = {}]
  /\ outbox' = [outbox EXCEPT ![p] = {}]
  /\ UNCHANGED << props, lock, now, otpLocals, kept >>
  /\ UNCHANGED regVars
  /\ UNCHANGED auxVars

OtpStep(p) ==
  \/ LookupAdmin(p)
  \/ Acquire(p)
  \/ StoreOtp(p)
  \/ VerifyOtp(p)
  \/ ReleaseLock(p)
  \/ IncrRead(p)
  \/ IncrWrite(p)
  \/ SendOtpEmail(p)
  \/ Welcome(p)

\* One client: each OTP request runs to its response before the next begins.
OtpSeqNext == OtpBegin(1, OtpBodies) \/ OtpStep(1) \/ OtpFinish(1) \/ Tick

OtpSeqSpec == Init /\ [][OtpSeqNext]_vars

\* The properties after a SEND_OTP that stored the first code at time t.
Issued(t) ==
  storeOtp_(<<>>, eA, generateOtp_(<<"A", "A", "A", "A">>), t + OTP_EXPIRY_MINUTES, t)

\* The properties concurrent requests may find: none; a live code; a code
\* and a lockout of LOCKOUT_MINUTES ago.
RaceStores ==
  { <<>>,
    Issued(0),
    setProperty(Issued(0 - LOCKOUT_MINUTES), lockoutKey(eA),
                JSONstringify(LockoutData(MAX_FAILED_ATTEMPTS,
                                          toISOString(0 - LOCKOUT_MINUTES)))) }

OtpRaceInit == RegInit /\ AuxInit /\ \E store \in RaceStores : OtpInit(store)

\* Concurrent OTP requests, one per client.
OtpRaceNext ==
  \E p \in Procs : OtpBegin(p, OtpRaceBodies) \/ OtpStep(p) \/ LockTimeout(p)

OtpRaceSpec == OtpRaceInit /\ [][OtpRaceNext]_vars

\* ======================================================== claims, OTP
\* The request is an OTP request that has its answer.
SendRan(p) == pc[p] = "done" /\ body[p].action = "SEND_OTP"

VerifyRan(p) == pc[p] = "done" /\ body[p].action = "VERIFY_OTP"

Answer(p) == response[p].message.text

HasOtp(store, e) == otpKey(e) \in DOMAIN store

OtpRec(store, e) == JSONparse(store[otpKey(e)])

\* The email has an unused, unexpired code at time t.
Live(store, e, t) ==
  HasOtp(store, e) /\ ~OtpRec(store, e).isUsed /\ t <= parseDate(OtpRec(store, e).expiry)

HasLockout(store, e) == lockoutKey(e) \in DOMAIN store

FailCount(store, e) ==
  IF HasLockout(store, e) THEN JSONparse(store[lockoutKey(e)]).count ELSE 0

\* The email is locked out at time t.
Locked(store, e, t) ==
  /\ FailCount(store, e) >= MAX_FAILED_ATTEMPTS
  /\ t < parseDate(JSONparse(store[lockoutKey(e)]).lastAttempt) + LOCKOUT_MINUTES

\* The VERIFY_OTP carries the code stored for its email when it began.
CarriesStored(p) ==
  /\ isValidEmail_(emailOf(body[p]))
  /\ HasOtp(props0[p], emailOf(body[p]))
  /\ OtpRec(props0[p], emailOf(body[p])).otp = otpOf(body[p])

\* The first use: the stored code, live, no lockout.
FirstUse(p) ==
  /\ VerifyRan(p)
  /\ CarriesStored(p)
  /\ Live(props0[p], emailOf(body[p]), now)
  /\ ~Locked(props0[p], emailOf(body[p]), now)

\* A later use: the stored code, marked used already.
LaterUse(p) ==
  /\ VerifyRan(p)
  /\ CarriesStored(p)
  /\ OtpRec(props0[p], emailOf(body[p])).isUsed

FirstUseAccepted ==
  \A p \in Procs :
    FirstUse(p) => /\ Succeeded(p)
                   /\ OtpRec(props, emailOf(body[p])).isUsed

AcceptedOnce == \A e \in OtpEmails : accepts[e] <= 1

\* C11 as stated: the first VERIFY_OTP with the stored live code succeeds and
\* marks the record used, every later one with that code is answered with the
\* already-used error, and no stored code is accepted twice.
C11_RoundTrip ==
  /\ FirstUseAccepted
  /\ AcceptedOnce
  /\ \A p \in Procs : LaterUse(p) => Answer(p) = UsedText

\* C11 amended: as above, but a later VERIFY_OTP with the used code is
\* answered with the already-used error only while the email is not locked
\* out; MAX_FAILED_ATTEMPTS such failures lock the email out, and the next
\* ones are answered with the locked-out error.
C11_RoundTripUnlessLockedOut ==
  /\ FirstUseAccepted
  /\ AcceptedOnce
  /\ \A p \in Procs :
       LaterUse(p) =>
         /\ Rejected(p)
         /\ Answer(p) = IF Locked(props0[p], emailOf(body[p]), now)
                          THEN VerifyLockedText ELSE UsedText

\* A second VERIFY_OTP with the code that was accepted, answered already-used.
C11_Witness ==
  \E p \in Procs :
    /\ LaterUse(p)
    /\ Answer(p) = UsedText
    /\ accepts[emailOf(body[p])] = 1

\* The codes a VERIFY_OTP for the email would be accepted with now.
Acceptable(e) ==
  { c \in {generateOtp_(d) : d \in OtpDraws} :
      verifyAndConsumeOtp_(props, e, c, now).valid }

\* The request is past verifyAndConsumeOtp_ and still holds the lock.
Verified(p) == pc[p] = "release" /\ body[p].action = "VERIFY_OTP"

\* C12: an email has at most one live code, the one stored last: SEND_OTP
\* overwrites the record of the email, so that, sequential or concurrent, only
\* the code of the latest storeOtp_ is accepted, and a VERIFY_OTP that meets a
\* live record with another code is answered with the mismatch error.
C12_OneLiveCodePerEmail ==
  /\ \A e \in OtpEmails :
       /\ Cardinality(Acceptable(e)) <= 1
       /\ Acceptable(e) \subseteq {lastStored[e]}
       /\ HasOtp(props, e) => OtpRec(props, e).otp = lastStored[e]
  /\ \A p \in Procs :
       Verified(p) =>
         /\ result[p].valid => otp[p] = lastStored[emailOf(body[p])]
         /\ (Live(props, emailOf(body[p]), now) /\ otp[p] # lastStored[emailOf(body[p])])
              => result[p].reason = MismatchText

\* A VERIFY_OTP began with the stored code, a concurrent SEND_OTP stored
\* another one first, and the verification found the mismatch.
C12_Witness ==
  \E p \in Procs :
    /\ Verified(p)
    /\ HasOtp(props0[p], emailOf(body[p]))
    /\ OtpRec(props0[p], emailOf(body[p])).otp = otp[p]
    /\ lastStored[emailOf(body[p])] # otp[p]
    /\ Live(props, emailOf(body[p]), now)
    /\ result[p].reason = MismatchText

\* The request passed the format checks of its handler.
FormatOk(p) ==
  /\ isValidEmail_(emailOf(body[p]))
  /\ body[p].action = "VERIFY_OTP" => isValidOtpFormat(otpOf(body[p]))

LockedOutAnswer(p) == Answer(p) \in {SendLockedText, VerifyLockedText}

\* The lockout record is the count of the failures answered since the last
\* success or elapsed lockout, and the time of the last of them.
CountsFailures ==
  \A e \in OtpEmails :
    /\ FailCount(props, e) = failed[e][1]
    /\ HasLockout(props, e) =>
         parseDate(JSONparse(props[lockoutKey(e)]).lastAttempt) = failed[e][2]

\* C13: failures are counted one by one from no record; with
\* MAX_FAILED_ATTEMPTS of them and less than LOCKOUT_MINUTES since the last,
\* the next SEND_OTP or VERIFY_OTP for the email is answered locked-out
\* whatever its code, and changes nothing; below the threshold no request is
\* locked out; LOCKOUT_MINUTES after the last failure the next request deletes
\* the record and is not answered locked-out.
C13_LockoutThreshold ==
  /\ CountsFailures
  /\ \A p \in Procs :
       (pc[p] = "done" /\ FormatOk(p)) =>
         LET e == emailOf(body[p])
         IN  /\ Locked(props0[p], e, now) =>
                  (LockedOutAnswer(p) /\ props = props0[p])
             /\ FailCount(props0[p], e) < MAX_FAILED_ATTEMPTS => ~LockedOutAnswer(p)
             /\ (FailCount(props0[p], e) >= MAX_FAILED_ATTEMPTS
                   /\ ~Locked(props0[p], e, now))
                  => /\ ~LockedOutAnswer(p)
                     /\ "elapsed" \in wrote[p]
                     /\ FailCount(props, e) <= 1

\* A VERIFY_OTP with the correct live code, answered locked-out after
\* MAX_FAILED_ATTEMPTS failures.
C13_Witness ==
  \E p \in Procs :
    /\ VerifyRan(p)
    /\ CarriesStored(p)
    /\ Live(props0[p], emailOf(body[p]), now)
    /\ failed[emailOf(body[p])][1] = MAX_FAILED_ATTEMPTS
    /\ Answer(p) = VerifyLockedText

\* The failures that count against the email at time t: those of the lockout
\* record, none when its lockout has elapsed.
Failures(store, e, t) ==
  IF FailCount(store, e) >= MAX_FAILED_ATTEMPTS /\ ~Locked(store, e, t)
    THEN 0 ELSE FailCount(store, e)

\* The VERIFY_OTP was evaluated against an unused code stored for its email.
MeetsUnused(p) ==
  /\ VerifyRan(p)
  /\ FormatOk(p)
  /\ ~Locked(props0[p], emailOf(body[p]), now)
  /\ HasOtp(props0[p], emailOf(body[p]))
  /\ ~OtpRec(props0[p], emailOf(body[p])).isUsed

\* C14: the stored expiry is the issue time plus OTP_EXPIRY_MINUTES; a
\* VERIFY_OTP later than it is answered with the expired error also when the
\* code matches, leaves the record unused and counts one failure; one not
\* later than it, with the matching unused code, succeeds.
C14_Expiry ==
  /\ \A e \in OtpEmails :
       HasOtp(props, e) =>
         parseDate(OtpRec(props, e).expiry) =
           parseDate(OtpRec(props, e).createdAt) + OTP_EXPIRY_MINUTES
  /\ \A p \in Procs :
       MeetsUnused(p) =>
         LET e == emailOf(body[p])
         IN  IF now > parseDate(OtpRec(props0[p], e).expiry)
               THEN /\ Rejected(p)
                    /\ Answer(p) = ExpiredText
                    /\ ~OtpRec(props, e).isUsed
                    /\ Failures(props, e, now) = Failures(props0[p], e, now) + 1
               ELSE CarriesStored(p) => Succeeded(p)

\* A VERIFY_OTP with the matching code, later than the expiry.
C14_Witness ==
  \E p \in Procs :
    /\ MeetsUnused(p)
    /\ CarriesStored(p)
    /\ now > parseDate(OtpRec(props0[p], emailOf(body[p])).expiry)
    /\ Answer(p) = ExpiredText

\* The requests inside the critical section of the script lock.
InCriticalSection == {p \in Procs : pc[p] \in {"store", "verify", "release"}}

MutualExclusion ==
  /\ Cardinality(InCriticalSection) <= 1
  /\ \A p \in InCriticalSection : lock = p

\* A VERIFY_OTP that began with the correct live code of its email, not
\* locked out, and has its answer.
Contender(p) ==
  /\ VerifyRan(p)
  /\ CarriesStored(p)
  /\ Live(props0[p], emailOf(body[p]), now)
  /\ ~Locked(props0[p], emailOf(body[p]), now)

\* Concurrent VERIFY_OTP requests with the same correct live code have all
\* completed.
ContestOver ==
  /\ \A p \in Procs : pc[p] = "idle" \/ Contender(p)
  /\ \A p, q \in Procs :
       (Contender(p) /\ Contender(q)) =>
         (emailOf(body[p]) = emailOf(body[q]) /\ props0[p] = props0[q])
  /\ \E p \in Procs : Contender(p)

Winners == {p \in Procs : pc[p] = "done" /\ Succeeded(p)}

\* C15 as stated: one request at a time in the critical section; of
\* concurrent VERIFY_OTP requests with the same correct live code exactly one
\* succeeds and every other one is answered already-used; no record is
\* accepted twice.
C15_SingleConsumption ==
  /\ MutualExclusion
  /\ AcceptedOnce
  /\ ContestOver =>
       /\ Cardinality(Winners) = 1
       /\ \A p \in Procs : Contender(p) /\ p \notin Winners => Answer(p) = UsedText

\* C15 amended: as above, but a request that is not the one that succeeds
\* fails either with the already-used error (it entered the critical section
\* later) or with the internal error of a lock wait that timed out (it never
\* entered it).
C15_SingleConsumptionOrTimeout ==
  /\ MutualExclusion
  /\ AcceptedOnce
  /\ ContestOver =>
       /\ Cardinality(Winners) = 1
       /\ \A p \in Procs :
            Contender(p) /\ p \notin Winners =>
              /\ Rejected(p)
              /\ \/ Answer(p) = UsedText /\ "incr" \in wrote[p]
                 \/ InternalError(p) /\ wrote[p] = {}

\* Two concurrent VERIFY_OTP requests with the correct live code: one
\* succeeded, the other was answered already-used.
C15_Witness ==
  /\ ContestOver
  /\ \E p, q \in Procs :
       /\ p # q
       /\ Contender(p) /\ Succeeded(p)
       /\ Contender(q) /\ Answer(q) = UsedText

\* C16: a successful SEND_OTP or VERIFY_OTP leaves no lockout record for its
\* email; the record counts only the failures since the last success (or
\* elapsed lockout), and a request is answered locked-out only after
\* MAX_FAILED_ATTEMPTS failures with no success between them.
C16_SuccessResetsFailures ==
  /\ \A p \in Procs :
       (pc[p] = "done" /\ Succeeded(p)) => ~HasLockout(props, emailOf(body[p]))
  /\ \A e \in OtpEmails : FailCount(props, e) = failed[e][1]
  /\ \A p \in Procs :
       (pc[p] = "done" /\ FormatOk(p) /\ LockedOutAnswer(p))
         => failed[emailOf(body[p])][1] >= MAX_FAILED_ATTEMPTS

\* A success for an email that had failures counted when the request began.
C16_Witness ==
  \E p \in Procs :
    /\ pc[p] = "done"
    /\ Succeeded(p)
    /\ FailCount(props0[p], emailOf(body[p])) \in 1..(MAX_FAILED_ATTEMPTS - 1)
    /\ ~HasLockout(props, emailOf(body[p]))

\* The answer of VERIFY_OTP by the order of its checks, evaluated on the body,
\* the properties the request found and the time: the text of the first check
\* that fails, "" when none does.
FirstFailure(b, store, t) ==
  LET e == emailOf(b)
      c == otpOf(b)
  IN  IF ~isValidEmail_(e) THEN InvalidEmailText
      ELSE IF c = <<>> \/ Len(c) # Len(OTP_PREFIX) + OTP_LENGTH
                \/ SubSeq(c, 1, Len(OTP_PREFIX)) # OTP_PREFIX THEN InvalidOtpText
      ELSE IF Locked(store, e, t) THEN VerifyLockedText
      ELSE IF ~HasOtp(store, e) THEN NoOtpText
      ELSE IF OtpRec(store, e).isUsed THEN UsedText
      ELSE IF t > parseDate(OtpRec(store, e).expiry) THEN ExpiredText
      ELSE IF OtpRec(store, e).otp # c THEN MismatchText
      ELSE ""

InLockFailures == {NoOtpText, UsedText, ExpiredText, MismatchText}

\* The properties with an elapsed lockout of the email deleted.
Unlocked(store, e, t) ==
  IF FailCount(store, e) >= MAX_FAILED_ATTEMPTS /\ ~Locked(store, e, t)
    THEN deleteProperty(store, lockoutKey(e)) ELSE store

\* C17: VERIFY_OTP answers with the first failing check of the order email
\* format, code format, lockout, no code found, already used, expired,
\* mismatch.  Each of the last four counts exactly one failure, after the lock
\* is released, and leaves the OTP record as it was; a format failure or a
\* locked-out rejection changes no property; no failure marks a record used.
C17_VerifyCheckOrder ==
  \A p \in Procs :
    /\ (pc[p] \in {"incrRead", "incrWrite"}) => lock # p
    /\ VerifyRan(p) =>
         LET e    == emailOf(body[p])
             text == FirstFailure(body[p], props0[p], now)
         IN  /\ Succeeded(p) <=> text = ""
             /\ Rejected(p) => Answer(p) = text
             /\ text \in InLockFailures =>
                  /\ Failures(props, e, now) = Failures(props0[p], e, now) + 1
                  /\ props = setProperty(Unlocked(props0[p], e, now), lockoutKey(e),
                                         props[lockoutKey(e)])
             /\ text \in {InvalidEmailText, InvalidOtpText, VerifyLockedText} =>
                  props = props0[p]

\* A VERIFY_OTP that fails two checks at once: the record is used and the
\* code is another one; the earlier check answers.
C17_Witness ==
  \E p \in Procs :
    /\ VerifyRan(p)
    /\ FormatOk(p)
    /\ HasOtp(props0[p], emailOf(body[p]))
    /\ OtpRec(props0[p], emailOf(body[p])).isUsed
    /\ OtpRec(props0[p], emailOf(body[p])).otp # otpOf(body[p])
    /\ Answer(p) = UsedText

\* A SEND_OTP for a well-formed email that is not locked out and has no
\* document in the admins collection.
UnknownAdmin(p) ==
  /\ SendRan(p)
  /\ isValidEmail_(emailOf(body[p]))
  /\ ~Locked(props0[p], emailOf(body[p]), now)
  /\ emailOf(body[p]) \notin DOMAIN admins

\* C18: SEND_OTP for an email without an admin record is answered
\* not-authorized, stores no OTP record, mails nothing and counts one failure
\* (a record with count 1 when there was none).
C18_NotAuthorizedCounts ==
  \A p \in Procs :
    UnknownAdmin(p) =>
      LET e == emailOf(body[p])
      IN  /\ Rejected(p)
          /\ Answer(p) = NotAuthorizedText
          /\ getProperty(props, otpKey(e)) = getProperty(props0[p], otpKey(e))
          /\ ~HasOtp(props, e)
          /\ outbox[p] = {}
          /\ Failures(props, e, now) = Failures(props0[p], e, now) + 1
          /\ ~HasLockout(props0[p], e) => FailCount(props, e) = 1

\* The first SEND_OTP for an email the directory does not know.
C18_Witness ==
  \E p \in Procs :
    /\ UnknownAdmin(p)
    /\ lookup[p] = "200"
    /\ ~HasLockout(props0[p], emailOf(body[p]))
    /\ FailCount(props, emailOf(body[p])) = 1

\* The directory query of the request failed: a status other than 200, or an
\* exception.
LookupFailed(p) == lookup[p] \in {"500", "throw"}

\* C19: when the directory query of a SEND_OTP fails, the answer is the
\* internal error, not the not-authorized error, and no failure is counted
\* against the email (here: the email of an admin the directory holds).
C19_LookupFailureIsInternalError ==
  \A p \in Procs :
    (SendRan(p) /\ LookupFailed(p) /\ emailOf(body[p]) \in DOMAIN admins) =>
      /\ InternalError(p)
      /\ Answer(p) # NotAuthorizedText
      /\ Failures(props, emailOf(body[p]), now)
           = Failures(props0[p], emailOf(body[p]), now)

\* The lock wait of the request timed out.
TimedOut(p) ==
  pc[p] = "done" /\ InternalError(p) /\ response[p].message.str = LockErr

\* C20: a request that waits for the script lock while another one holds it
\* can always end with the error of the timed-out wait; a request that ended
\* so stored no OTP record, marked none used, and neither counted nor reset a
\* failure (at most it dropped a lockout that had elapsed before it began,
\* which leaves the count of failures at zero).
C20_LockWaitBounded ==
  \A p \in Procs :
    /\ (pc[p] = "acquire" /\ lock # 0) => ENABLED LockTimeout(p)
    /\ TimedOut(p) =>
         /\ response[p].status = "error"
         /\ wrote[p] \subseteq {"elapsed"}
         /\ lock # p
         /\ Failures(props0[p], emailOf(body[p]), now) = 0
              \/ wrote[p] = {}

\* A VERIFY_OTP with the correct live code whose lock wait timed out.
C20_Witness ==
  \E p \in Procs :
    /\ TimedOut(p)
    /\ body[p].action = "VERIFY_OTP"
    /\ CarriesStored(p)
    /\ Live(props0[p], emailOf(body[p]), now)

\* ============================================= claims, second series
\* The confirmation email of the request was attempted.
MailAttempted(p) == outbox[p] # {}

\* C21: a confirmation email is attempted only for a request whose row is
\* appended and patched with the identifiers the mail carries, to every email
\* of the submission; whichever sends fail, the row stays as written and the
\* response is success with the row's serialNo, registrationId and
\* ticketNumber and the number of rows as totalRegistered.
C21_EmailFailureNotFatal ==
  \A p \in Procs :
    /\ Succeeded(p) => MailAttempted(p)
    /\ MailAttempted(p) =>
         /\ Succeeded(p)
         /\ myRow[p] # 0
         /\ { m.to : m \in outbox[p] } = EmailsOf(body[p]) \ {<<>>}
         /\ \A m \in outbox[p] :
              /\ m.registrationId # <<>>
              /\ m.ticketNumber # <<>>
              /\ Cell(sheet[myRow[p]], 2) = m.registrationId
              /\ Cell(sheet[myRow[p]], 3) = m.ticketNumber
         /\ Cell(sheet[myRow[p]], 0) = response[p].data.serialNo
         /\ Cell(sheet[myRow[p]], 2) = response[p].data.registrationId
         /\ Cell(sheet[myRow[p]], 3) = response[p].data.ticketNumber
         /\ response[p].data.totalRegistered = Len(sheet)

\* A team registration answered with success although no recipient got the mail.
C21_Witness ==
  \E p \in Procs :
    /\ Succeeded(p)
    /\ Cardinality(outbox[p]) >= 2
    /\ \A m \in outbox[p] : ~m.ok

\* ============================================================== doPost
\* A JSON value as the router reads it: its kind and, of an object, its
\* action member (absent, a string or a number).
Absent == [kind |-> "absent", str |-> <<>>, num |-> 0]

Str(s) == [kind |-> "string", str |-> s, num |-> 0]

Num(n) == [kind |-> "number", str |-> <<>>, num |-> n]

JsonNull == [kind |-> "null", action |-> Absent]

JsonNumber == [kind |-> "number", action |-> Absent]

JsonObject(action) == [kind |-> "object", action |-> action]

\* e.postData: missing, or contents that are empty, not JSON, or JSON text.
Post(kind, value) == [kind |-> kind, value |-> value]

\* The case labels of the switch and the handlers they call.
Routes ==
  ( <<"REGISTER">>          :> "handleRegister_" )
  @@ ( <<"GET_SLOTS">>         :> "handleGetSlots_" )
  @@ ( <<"GET_REGISTRATIONS">> :> "handleGetRegistrations_" )
  @@ ( <<"CREATE_EVENT">>      :> "handleCreateEvent_" )
  @@ ( <<"GET_EVENTS">>        :> "handleGetEvents_" )
  @@ ( <<"UPDATE_EVENT">>      :> "handleUpdateEvent_" )
  @@ ( <<"DELETE_EVENT">>      :> "handleDeleteEvent_" )
  @@ ( <<"SEND_OTP">>          :> "handleSendOtp_" )
  @@ ( <<"VERIFY_OTP">>        :> "handleVerifyOtp_" )

\* The requests: e.postData and its contents.
Posts ==
  { Post("absent", JsonNull), Post("empty", JsonNull), Post("garbage", JsonNull),
    Post("json", JsonNull), Post("json", JsonNumber),
    Post("json", JsonObject(Absent)),
    Post("json", JsonObject(Str(<<>>))),
    Post("json", JsonObject(Str(<<" ">>))),
    Post("json", JsonObject(Num(0))),
    Post("json", JsonObject(Num(5))),
    Post("json", JsonObject(Str(<<"FOO">>))),
    Post("json", JsonObject(Str(<<"REGISTER", "S">>))),
    Post("json", JsonObject(Str(<<"register">>))),
    Post("json", JsonObject(Str(<<" ", "send_otp">>))) }
  \cup { Post("json", JsonObject(Str(a))) : a \in DOMAIN Routes }
  \cup { Post("json", JsonObject(Str(<<" ">> \o a \o <<" ">>))) : a \in DOMAIN Routes }

\* (body.action || "").toString().trim().toUpperCase()
actionOf(b) ==
  LET a == b.action
  IN  IF a.kind = "string" THEN toUpperCase(trim(a.str))
      ELSE IF a.kind = "number" /\ a.num # 0 THEN << ToString(a.num) >>
      ELSE <<>>

\* How a handler ends: it returns buildResponse("success", ...), it returns
\* buildResponse("error", ...), or it throws.
HandlerOutcomes == {"success", "error", "throw"}

InternalErrorResponse ==
  buildResponse("error", Msg("Internal server error: $", 0, <<>>), NoData)

routerEnv == << regVars, otpVars, sessionVars, eventVars, formVars >>

\* Lines 91-104: the contents of the request and JSON.parse.
Receive(p) ==
  /\ pc[p] = "idle"
  /\ \E e \in Posts :
       /\ postData' = [postData EXCEPT ![p] = e]
       /\ IF e.kind \in {"absent", "empty"}
            THEN /\ response' = [response EXCEPT ![p] =
                       buildResponse("error", Msg("Empty request body.", 0, <<>>), NoData)]
                 /\ Goto(p, "done")
                 /\ UNCHANGED body
          ELSE IF e.kind = "garbage"
            THEN /\ response' = [response EXCEPT ![p] =
                       buildResponse("error", Msg("Invalid JSON request body.", 0, <<>>),
                                     NoData)]
                 /\ Goto(p, "done")
                 /\ UNCHANGED body
          ELSE /\ body' = [body EXCEPT ![p] = e.value]
               /\ Goto(p, "route")
               /\ UNCHANGED response
  /\ UNCHANGED handler
  /\ UNCHANGED routerEnv

\* The switch without its default case: an unknown action runs the first case.
Route_NoDefault(p) ==
  /\ pc[p] = "route"
  /\ IF body[p].kind = "null"
       THEN /\ response' = [response EXCEPT ![p] = InternalErrorResponse]
            /\ Goto(p, "done")
            /\ UNCHANGED handler
       ELSE /\ handler' = [handler EXCEPT ![p] =
                   IF actionOf(body[p]) \in DOMAIN Routes
                     THEN Routes[actionOf(body[p])] ELSE "handleRegister_"]
            /\ Goto(p, "handler")
            /\ UNCHANGED response
  /\ UNCHANGED << body, postData >>
  /\ UNCHANGED routerEnv

\* Lines 106-135: the action and the switch.  The action of a null body
\* cannot be read: the TypeError is caught at lines 137-140.
Route(p) ==
  /\ pc[p] = "route"
  /\ IF body[p].kind = "null"
       THEN /\ response' = [response EXCEPT ![p] = InternalErrorResponse]
            /\ Goto(p, "done")
            /\ UNCHANGED handler
     ELSE IF actionOf(body[p]) \in DOMAIN Routes
       THEN /\ handler' = [handler EXCEPT ![p] = Routes[actionOf(body[p])]]
            /\ Goto(p, "handler")
            /\ UNCHANGED response
     ELSE /\ response' = [response EXCEPT ![p] =
                buildResponse("error",
                              Msg("Unknown action: $", 0, actionOf(body[p])), NoData)]
          /\ Goto(p, "done")
          /\ UNCHANGED handler
  /\ UNCHANGED << body, postData >>
  /\ UNCHANGED routerEnv

\* The handler runs: doPost returns what it returns, or catches what it
\* throws (lines 137-140).
Handle(p) ==
  /\ pc[p] = "handler"
  /\ \E outcome \in HandlerOutcomes :
       response' = [response EXCEPT ![p] =
         IF outcome = "throw" THEN InternalErrorResponse
         ELSE buildResponse(outcome, Msg("", 0, <<>>), NoData)]
  /\ Goto(p, "done")
  /\ UNCHANGED << body, postData, handler >>
  /\ UNCHANGED routerEnv

\* The next request of the client.
RouterFinish(p) ==
  /\ pc[p] = "done"
  /\ Goto(p, "idle")
  /\ body' = [body EXCEPT ![p] = NoBody]
  /\ response' = [response EXCEPT ![p] = NoResponse]
  /\ postData' = [postData EXCEPT ![p] = NoPost]
  /\ handler' = [handler EXCEPT ![p] = "none"]
  /\ UNCHANGED routerEnv

\* One client of the router.
RouterNext == Receive(1) \/ Route(1) \/ Handle(1) \/ RouterFinish(1)

RouterSpec == Init /\ [][RouterNext]_vars

\* The request names none of the router's actions: it has no JSON object, or
\* the object's action, trimmed and in upper case, is no case label.
NamesNoAction(e) ==
  \/ e.kind # "json"
  \/ e.value.kind # "object"
  \/ e.value.action.kind # "string"
  \/ toUpperCase(trim(e.value.action.str)) \notin DOMAIN Routes

\* C22: whatever the request body and however the handler ends, doPost
\* answers with the envelope: status is success or error and success says
\* whether status is success; a request whose action is missing or unknown is
\* answered with an error and no handler is called for it; a handler is called
\* only for the action it serves.
C22_UniformEnvelope ==
  \A p \in Procs :
    /\ pc[p] = "done" =>
         /\ response[p].status \in {"success", "error"}
         /\ response[p].success = (response[p].status = "success")
         /\ NamesNoAction(postData[p]) =>
              /\ response[p].status = "error"
              /\ handler[p] = "none"
    /\ handler[p] # "none" =>
         /\ ~NamesNoAction(postData[p])
         /\ handler[p] = Routes[toUpperCase(trim(postData[p].value.action.str))]

\* A request for " send_otp" whose handler threw is answered with the
\* internal error.
C22_Witness ==
  \E p \in Procs :
    /\ pc[p] = "done"
    /\ postData[p] = Post("json", JsonObject(Str(<<" ", "send_otp">>)))
    /\ handler[p] = "handleSendOtp_"
    /\ InternalError(p)

\* ============================================== handleGetRegistrations_
\* Lines 427-434 and 441-448: one entry of the members array.
MemberEntry(name, email, phone, branch, section, isLeader) ==
  [name |-> name, email |-> email, phone |-> phone, branch |-> branch,
   section |-> section, isLeader |-> isLeader]

\* Lines 436-451: the members in the four member column groups, from group m on.
RECURSIVE additionalMembers(_, _)
additionalMembers(row, m) ==
  IF m >= 4 THEN <<>>
  ELSE LET baseCol    == 11 + (m * 5)
           memberName == trim(Cell(row, baseCol))
       IN  (IF memberName # <<>>
              THEN << MemberEntry(memberName, Cell(row, baseCol + 1),
                                  Cell(row, baseCol + 2), Cell(row, baseCol + 3),
                                  Cell(row, baseCol + 4), FALSE) >>
              ELSE <<>>)
           \o additionalMembers(row, m + 1)

\* Lines 421-463: the registration built from one data row.
registrationOf(row) ==
  [serialNo       |-> Cell(row, 0),
   timestamp      |-> Cell(row, 1),
   registrationId |-> Cell(row, 2),
   ticketNumber   |-> Cell(row, 3),
   teamName       |-> Cell(row, 4),
   teamSize       |-> parseTeamSize(Cell(row, 10)),
   members        |-> << MemberEntry(Cell(row, 5), Cell(row, 6), Cell(row, 7),
                                     Cell(row, 8), Cell(row, 9), TRUE) >>
                      \o additionalMembers(row, 0),
   registeredBy   |-> Cell(row, 5)]

\* handleGetRegistrations_ on the data rows of the sheet: the data of its
\* response (the empty list when there is no data row).
handleGetRegistrations_(rows) ==
  IF Len(rows) + 1 <= 1 THEN <<>>
  ELSE [i \in 1..Len(rows) |-> registrationOf(rows[i])]

\* The members list of a submission as the claim expects it back: the leader,
\* then every submitted member in order, fields trimmed, emails in lower case.
SubmittedMembers(b) ==
  << MemberEntry(trim(b.leaderName), Norm(b.email), trim(b.phone),
                 trim(b.branch), trim(b.section), TRUE) >>
  \o [i \in 1..Len(b.teamMembers) |->
        MemberEntry(trim(b.teamMembers[i].name), Norm(b.teamMembers[i].email),
                    trim(b.teamMembers[i].phone), trim(b.teamMembers[i].branch),
                    trim(b.teamMembers[i].section), FALSE)]

\* C23: after a successful REGISTER, GET_REGISTRATIONS has one entry for the
\* row of the request: its members are the leader (isLeader) followed by
\* exactly the submitted members in order, with the submitted name, email,
\* phone, branch and section (as normalised at the write), and its teamSize
\* and teamName are the submitted ones.
C23_WriteReadRoundTrip ==
  \A p \in Procs :
    Succeeded(p) =>
      LET registrations == handleGetRegistrations_(sheet)
          entry         == registrations[myRow[p]]
      IN  /\ Len(registrations) = Len(sheet)
          /\ entry.serialNo = response[p].data.serialNo
          /\ entry.members = SubmittedMembers(body[p])
          /\ entry.teamSize = parseTeamSize(body[p].teamSize)
          /\ entry.teamName = trim(body[p].teamName)

\* ================================================ adminAuthService, session
\* Date.now() is counted in hours and moves by HourStep between calls.
HourStep == 12
MaxHours == 36

\* const oneDayMs = 24 * 60 * 60 * 1000, in hours.
oneDayMs == 24

AdminSession(email, name, role, loginAt) ==
  [email |-> email, name |-> name, role |-> role, loginAt |-> loginAt]

\* A stored value that JSON.parse rejects.
Garbled == <<"TEXT", "{">>

Parses(raw) == raw[1] = "JSON"

\* saveSession: the storage after localStorage.setItem.
saveSession(s) == JSONstringify(s)

\* clearSession: the storage after localStorage.removeItem.
clearSession == null

\* getSession whose session expires at 24 hours already.
getSession_Inclusive(storage, t) ==
  LET raw == storage
  IN  IF raw = null THEN [result |-> null, storage |-> storage]
      ELSE IF ~Parses(raw) THEN [result |-> null, storage |-> clearSession]
      ELSE IF t - JSONparse(raw).loginAt >= oneDayMs
        THEN [result |-> null, storage |-> clearSession]
      ELSE [result |-> JSONparse(raw), storage |-> storage]

\* getSession at time t: what it returns and the storage it leaves.
getSession(storage, t) ==
  LET raw == storage
  IN  IF raw = null THEN [result |-> null, storage |-> storage]
      ELSE IF ~Parses(raw) THEN [result |-> null, storage |-> clearSession]
      ELSE IF t - JSONparse(raw).loginAt > oneDayMs
        THEN [result |-> null, storage |-> clearSession]
      ELSE [result |-> JSONparse(raw), storage |-> storage]

isAuthenticated(storage, t) == getSession(storage, t).result # null

sessionEnv ==
  << regVars, otpVars, routerVars, eventVars, formVars, pc, body, response >>

\* The stored value ended for the reader: it was there and the read removed it.
EndedBy(g, before) ==
  IF g.storage = null /\ before # null THEN "expired" ELSE ended

\* A call of getSession or isAuthenticated by any component.
GetSession ==
  /\ LET g == getSession(localStorage, dateNow)
     IN  /\ localStorage' = g.storage
         /\ got' = [called |-> TRUE, raw |-> localStorage, at |-> dateNow,
                    result |-> g.result]
         /\ ended' = EndedBy(g, localStorage)
  /\ UNCHANGED << dateNow, session >>
  /\ UNCHANGED sessionEnv

\* AdminAuthProvider mounts: useEffect reads the stored session.
Mount ==
  /\ LET g == getSession(localStorage, dateNow)
     IN  /\ localStorage' = g.storage
         /\ got' = [called |-> TRUE, raw |-> localStorage, at |-> dateNow,
                    result |-> g.result]
         /\ ended' = EndedBy(g, localStorage)
         /\ session' = g.result
  /\ UNCHANGED dateNow
  /\ UNCHANGED sessionEnv

\* The names a VERIFY_OTP response carries: the directory's, or "Admin".
SessionNames == { Name, <<"A", "d", "m", "i", "n">> }

\* login of AdminAuthProvider, called by AdminAuth with the data of the
\* VERIFY_OTP response and loginAt: Date.now().
login ==
  /\ \E name \in SessionNames :
       LET newSession == AdminSession(eA, name, <<"a", "d", "m", "i", "n">>, dateNow)
       IN  /\ localStorage' = saveSession(newSession)
           /\ session' = newSession
  /\ got' = NoCall
  /\ ended' = "no"
  /\ UNCHANGED dateNow
  /\ UNCHANGED sessionEnv

\* logout of AdminAuthProvider.
logout ==
  /\ localStorage' = clearSession
  /\ session' = null
  /\ got' = NoCall
  /\ ended' = "cleared"
  /\ UNCHANGED dateNow
  /\ UNCHANGED sessionEnv

\* The stored item is damaged outside the application.
Garble ==
  /\ localStorage # null
  /\ localStorage # Garbled
  /\ localStorage' = Garbled
  /\ got' = NoCall
  /\ UNCHANGED << dateNow, session, ended >>
  /\ UNCHANGED sessionEnv

\* Time passes, or the page is left and opened again.
Later ==
  /\ dateNow + HourStep <= MaxHours
  /\ dateNow' = dateNow + HourStep
  /\ \/ session' = session
     \/ session' = null
  /\ got' = NoCall
  /\ UNCHANGED << localStorage, ended >>
  /\ UNCHANGED sessionEnv

SessionNext == GetSession \/ Mount \/ login \/ logout \/ Garble \/ Later

SessionSpec == Init /\ [][SessionNext]_vars

\* The stored value is a session that is at most a day old at time t.
Fresh(raw, t) == raw # null /\ Parses(raw) /\ t - JSONparse(raw).loginAt <= oneDayMs

\* C24: getSession returns the stored session exactly while now - loginAt
\* is at most 24 hours; for an older session and for a value that cannot be
\* parsed it returns null and leaves no stored item; once the stored session
\* has expired on a read or was cleared, every getSession and isAuthenticated
\* call finds none until the next saveSession.
C24_SessionLifetime ==
  /\ got.called =>
       /\ Fresh(got.raw, got.at) =>
            /\ got.result = JSONparse(got.raw)
            /\ localStorage = got.raw
       /\ ~Fresh(got.raw, got.at) =>
            /\ got.result = null
            /\ localStorage = null
       /\ ended # "no" => got.result = null
  /\ ended # "no" =>
       /\ ~isAuthenticated(localStorage, dateNow)
       /\ getSession(localStorage, dateNow).result = null

\* A getSession call returned a session that was exactly 24 hours old.
C24_Witness ==
  /\ got.called
  /\ got.raw # null
  /\ Parses(got.raw)
  /\ got.at - JSONparse(got.raw).loginAt = oneDayMs
  /\ got.result # null

\* ==================================================== event management
EVENT_HEADERS ==
  << "ID", "Event Name", "Event Description", "Total Slots",
     "Team Size", "Created At", "Is Active" >>

\* The ids handleCreateEvent_ can generate ("evt_" + time + "_" + random).
EventIds == { <<"evt_1">>, <<"evt_2">> }

\* A member of a request body: given with a value, or undefined.
Given(v) == [given |-> TRUE, value |-> v]

NotGivenStr == [given |-> FALSE, value |-> <<>>]

NotGivenNum == [given |-> FALSE, value |-> 0]

NotGivenBool == [given |-> FALSE, value |-> FALSE]

\* getEventsSheet_: the sheet, created with its header row when it is
\* missing or empty.
getEventsSheet_(sh) ==
  IF ~sh.exists \/ Len(sh.rows) = 0
    THEN [exists |-> TRUE, rows |-> << EVENT_HEADERS >>]
    ELSE sh

\* The data rows (rows 2..lastRow).
DataRows(sh) == SubSeq(sh.rows, 2, Len(sh.rows))

\* parseInt(x) || fallback, of a number.
parseIntOr(x, fallback) == IF x = 0 THEN fallback ELSE x

\* rowToEvent_
rowToEvent_(row) ==
  [id               |-> Cell(row, 0),
   eventName        |-> Cell(row, 1),
   eventDescription |-> Cell(row, 2),
   totalSlots       |-> parseIntOr(Cell(row, 3), 0),
   teamSize         |-> parseIntOr(Cell(row, 4), 1),
   createdAt        |-> Cell(row, 5),
   isActive         |-> Cell(row, 6) = TRUE]

\* The row written for an event (lines 621-629).
eventToRow(ev) ==
  << ev.id, ev.eventName, ev.eventDescription, ev.totalSlots, ev.teamSize,
     ev.createdAt, ev.isActive >>

\* The 0-based index in data of the first row with the id, -1 if none.
RECURSIVE findEvent(_, _, _)
findEvent(data, eventId, i) ==
  IF i >= Len(data) THEN 0 - 1
  ELSE IF Cell(data[i + 1], 0) = eventId THEN i
  ELSE findEvent(data, eventId, i + 1)

\* Lines 616-620 where every field is taken from the request, given or not.
applyUpdates_All(updated, b) ==
  [id               |-> updated.id,
   eventName        |-> trim(b.eventName.value),
   eventDescription |-> trim(b.eventDescription.value),
   totalSlots       |-> parseIntOr(b.totalSlots.value, updated.totalSlots),
   teamSize         |-> parseIntOr(b.teamSize.value, updated.teamSize),
   createdAt        |-> updated.createdAt,
   isActive         |-> b.isActive.value]

\* Lines 616-620: only the fields that are provided.
applyUpdates(updated, b) ==
  [id               |-> updated.id,
   eventName        |-> IF b.eventName.given
                          THEN trim(b.eventName.value) ELSE updated.eventName,
   eventDescription |-> IF b.eventDescription.given
                          THEN trim(b.eventDescription.value)
                          ELSE updated.eventDescription,
   totalSlots       |-> IF b.totalSlots.given
                          THEN parseIntOr(b.totalSlots.value, updated.totalSlots)
                          ELSE updated.totalSlots,
   teamSize         |-> IF b.teamSize.given
                          THEN parseIntOr(b.teamSize.value, updated.teamSize)
                          ELSE updated.teamSize,
   createdAt        |-> updated.createdAt,
   isActive         |-> IF b.isActive.given THEN b.isActive.value ELSE updated.isActive]

EventResponse(status, message, id) == [status |-> status, message |-> message, id |-> id]

\* sh with sheet row `row` removed (Sheet.deleteRow).
deleteRow(sh, row) ==
  [sh EXCEPT !.rows = SubSeq(@, 1, row - 1) \o SubSeq(@, row + 1, Len(@))]

\* sh with sheet row `row` replaced (Range.setValues of the whole row).
setValues(sh, row, values) == [sh EXCEPT !.rows[row] = values]

appendEventRow(sh, values) == [sh EXCEPT !.rows = Append(@, values)]

\* ------------------------------------------------------ request bodies
CreateBody(name, desc, totalSlots, teamSize) ==
  [action |-> "CREATE_EVENT", eventName |-> name, eventDescription |-> desc,
   totalSlots |-> totalSlots, teamSize |-> teamSize]

CreateBodies ==
  { CreateBody(<<" ", "E">>, <<"D">>, 0, 0),
    CreateBody(<<" ">>, <<"D">>, 20, 4),
    CreateBody(<<"E">>, <<>>, 20, 4),
    CreateBody(<<"E">>, <<"D">>, 0 - 1, 4),
    CreateBody(<<"E">>, <<"D">>, 20, 11) }

\* The eventId of UPDATE_EVENT and DELETE_EVENT: known ones, padded, unknown,
\* blank.
RequestIds == EventIds \cup { <<" ", "evt_1", " ">>, <<"evt_9">>, <<" ">> }

\* The fields of an UPDATE_EVENT: none, one, two, or all of them.
UpdateFields(n, d, ts, sz, ia) ==
  [eventName |-> n, eventDescription |-> d, totalSlots |-> ts, teamSize |-> sz,
   isActive |-> ia]

UpdateFieldSets ==
  { UpdateFields(NotGivenStr, NotGivenStr, NotGivenNum, NotGivenNum, NotGivenBool),
    UpdateFields(Given(<<" ", "G", " ">>), NotGivenStr, NotGivenNum, NotGivenNum,
                 NotGivenBool),
    UpdateFields(NotGivenStr, NotGivenStr, Given(0), Given(3), NotGivenBool),
    UpdateFields(Given(<<>>), Given(<<"D", "2">>), Given(10), Given(3), Given(FALSE)) }

UpdateBodies ==
  { [action |-> "UPDATE_EVENT", eventId |-> id, eventName |-> f.eventName,
     eventDescription |-> f.eventDescription, totalSlots |-> f.totalSlots,
     teamSize |-> f.teamSize, isActive |-> f.isActive] :
      id \in RequestIds, f \in UpdateFieldSets }

DeleteBodies == { [action |-> "DELETE_EVENT", eventId |-> id] : id \in RequestIds }

eventEnv ==
  << regVars, otpVars, routerVars, sessionVars, formVars, pc, body, response >>

\* The request arrives: the histories of the handler's step.
EventRequest(b) ==
  /\ eventBody' = b
  /\ eventsBefore' = eventsSheet
  /\ UNCHANGED eventEnv

\* handleCreateEvent_
CreateEvent ==
  /\ \E b \in CreateBodies, id \in EventIds, thrown \in BOOLEAN :
       LET evtName    == trim(b.eventName)
           evtDesc    == trim(b.eventDescription)
           totalSlots == parseIntOr(b.totalSlots, 50)
           teamSize   == parseIntOr(b.teamSize, 1)
           createdAt  == toISOString(0)
           sh         == getEventsSheet_(eventsSheet)
       IN  /\ \A i \in 1..Len(DataRows(sh)) : Cell(DataRows(sh)[i], 0) # id
           /\ EventRequest(b)
           /\ IF evtName = <<>>
                THEN /\ eventResponse' = EventResponse("error", "Event name is required.", <<>>)
                     /\ UNCHANGED eventsSheet
              ELSE IF evtDesc = <<>>
                THEN /\ eventResponse' =
                          EventResponse("error", "Event description is required.", <<>>)
                     /\ UNCHANGED eventsSheet
              ELSE IF totalSlots < 1
                THEN /\ eventResponse' =
                          EventResponse("error", "Total slots must be at least 1.", <<>>)
                     /\ UNCHANGED eventsSheet
              ELSE IF teamSize < 1 \/ teamSize > 10
                THEN /\ eventResponse' = EventResponse("error", "Team size must be 1-10.", <<>>)
                     /\ UNCHANGED eventsSheet
              ELSE IF thrown
                THEN /\ eventResponse' = EventResponse("error", "Failed to create event: $", <<>>)
                     /\ eventsSheet' = sh
              ELSE /\ eventResponse' = EventResponse("success", "Event created.", id)
                   /\ eventsSheet' =
                        appendEventRow(sh, << id, evtName, evtDesc, totalSlots, teamSize,
                                              createdAt, TRUE >>)

\* handleUpdateEvent_; thrown: setValues throws and the catch answers.
UpdateEvent ==
  \E b \in UpdateBodies, thrown \in BOOLEAN :
    LET eventId  == trim(b.eventId)
        sh       == getEventsSheet_(eventsSheet)
        last     == Len(sh.rows)
        data     == DataRows(sh)
        found    == findEvent(data, eventId, 0)
        rowIndex == found + 2
    IN  /\ EventRequest(b)
        /\ IF eventId = <<>>
             THEN /\ eventResponse' = EventResponse("error", "Event ID is required.", <<>>)
                  /\ UNCHANGED eventsSheet
           ELSE IF last <= 1
             THEN /\ eventResponse' = EventResponse("error", "No events found.", <<>>)
                  /\ eventsSheet' = sh
           ELSE IF found = 0 - 1
             THEN /\ eventResponse' = EventResponse("error", "Event not found.", <<>>)
                  /\ eventsSheet' = sh
           ELSE IF thrown
             THEN /\ eventResponse' =
                       EventResponse("error", "Failed to update event: $", <<>>)
                  /\ eventsSheet' = sh
           ELSE /\ eventResponse' = EventResponse("success", "Event updated.", eventId)
                /\ eventsSheet' =
                     setValues(sh, rowIndex,
                       eventToRow(applyUpdates(rowToEvent_(sh.rows[rowIndex]), b)))

\* handleDeleteEvent_; thrown: deleteRow throws and the catch answers.
DeleteEvent ==
  \E b \in DeleteBodies, thrown \in BOOLEAN :
    LET eventId == trim(b.eventId)
        sh      == getEventsSheet_(eventsSheet)
        last    == Len(sh.rows)
        found   == findEvent(DataRows(sh), eventId, 0)
    IN  /\ EventRequest(b)
        /\ IF eventId = <<>>
             THEN /\ eventResponse' = EventResponse("error", "Event ID is required.", <<>>)
                  /\ UNCHANGED eventsSheet
           ELSE IF last <= 1
             THEN /\ eventResponse' = EventResponse("error", "No events found.", <<>>)
                  /\ eventsSheet' = sh
           ELSE IF found = 0 - 1
             THEN /\ eventResponse' = EventResponse("error", "Event not found.", <<>>)
                  /\ eventsSheet' = sh
           ELSE IF thrown
             THEN /\ eventResponse' =
                       EventResponse("error", "Failed to delete event: $", <<>>)
                  /\ eventsSheet' = sh
           ELSE /\ eventResponse' = EventResponse("success", "Event deleted.", eventId)
                /\ eventsSheet' = deleteRow(sh, found + 2)

EventNext == CreateEvent \/ UpdateEvent \/ DeleteEvent

EventSpec == Init /\ [][EventNext]_vars

\* The event rows before and after the last event request.
EventsWere == DataRows(eventsBefore)

EventsAre == DataRows(eventsSheet)

\* The id the last request names, and the position of its row before the
\* request (0: the id is missing or unknown).
NamedId == trim(eventBody.eventId)

NamedRow == findEvent(EventsWere, NamedId, 0) + 1

\* The columns of the fields the UPDATE_EVENT does not provide.
FieldsNotGiven ==
  { c \in 1..4 :
      \/ c = 1 /\ ~eventBody.eventName.given
      \/ c = 2 /\ ~eventBody.eventDescription.given
      \/ c = 3 /\ ~eventBody.totalSlots.given
      \/ c = 4 /\ ~eventBody.teamSize.given }
  \cup (IF eventBody.isActive.given THEN {} ELSE {6})

\* s without its k-th element.
Without(s, k) == SubSeq(s, 1, k - 1) \o SubSeq(s, k + 1, Len(s))

MaxSelect == 3

\* The member entry handleChange appends.
EmptyMember ==
  [name |-> <<>>, email |-> <<>>, phone |-> <<>>, branch |-> <<>>, section |-> <<>>]

\* The inputs that call handleChange, by their name attribute.
TextFields == {"leaderName", "email", "phone", "branch", "section", "teamName"}

\* What is typed into a text input.
Typed == { <<>>, <<"T">> }

\* The values of the teamSize select, and values parseInt(value, 10) makes
\* NaN or 0 of (0 stands for them).
SizeValues == 0..MaxSelect

\* Array.from({ length: n }, () => ({...})): n empty entries.
EmptyMembers(n) == [i \in 1..n |-> EmptyMember]

\* handleChange that never trims the members.
handleChange_GrowOnly(prev, name, value) ==
  IF name = "teamSize"
    THEN LET size            == IF value = 0 THEN 1 ELSE value
             additionalCount == IF size - 1 > 0 THEN size - 1 ELSE 0
             current         == prev.teamMembers
         IN  [prev EXCEPT
                !.teamSize = size,
                !.teamMembers =
                  IF additionalCount > Len(current)
                    THEN current \o EmptyMembers(additionalCount - Len(current))
                    ELSE current]
    ELSE [prev EXCEPT ![name] = value]

\* The updater handleChange passes to setFormData: the form after the input
\* `name` changed to `value`.
handleChange(prev, name, value) ==
  IF name = "teamSize"
    THEN LET size            == IF value = 0 THEN 1 ELSE value
             additionalCount == IF size - 1 > 0 THEN size - 1 ELSE 0
             current         == prev.teamMembers
         IN  [prev EXCEPT
                !.teamSize = size,
                !.teamMembers =
                  IF additionalCount > Len(current)
                    THEN current \o EmptyMembers(additionalCount - Len(current))
                    ELSE SubSeq(current, 1, additionalCount)]
    ELSE [prev EXCEPT ![name] = value]

\* The updater of handleMemberChange.
handleMemberChange(prev, index, field, value) ==
  [prev EXCEPT !.teamMembers[index + 1][field] = value]

formEnv ==
  << regVars, otpVars, routerVars, sessionVars, eventVars, pc, body, response >>

\* A text input or the teamSize select changes.
Change ==
  /\ \E name \in TextFields \cup {"teamSize"} :
       \E value \in (IF name = "teamSize" THEN SizeValues ELSE Typed) :
         /\ formData' = handleChange(formData, name, value)
         /\ changed' = name
  /\ formBefore' = formData
  /\ UNCHANGED formEnv

\* An input of one of the member entries shown changes.
MemberChange ==
  /\ \E index \in 0..(Len(formData.teamMembers) - 1), field \in {"name", "email"},
        value \in Typed :
       formData' = handleMemberChange(formData, index, field, value)
  /\ changed' = "teamMembers"
  /\ formBefore' = formData
  /\ UNCHANGED formEnv

FormNext == Change \/ MemberChange

FormSpec == Init /\ [][FormNext]_vars

\* s is the beginning of t.
IsPrefix(s, t) == Len(s) <= Len(t) /\ SubSeq(t, 1, Len(s)) = s

\* C26: in every form reached by field changes from the initial form,
\* teamMembers has max(0, teamSize - 1) entries; a change of teamSize that
\* grows the team keeps the entries there were and appends empty ones, one
\* that shrinks it keeps the first teamSize - 1 entries, and a change of any
\* other field leaves the number of entries as it was.
C26_MembersFollowTeamSize ==
  /\ Len(formData.teamMembers) =
       (IF formData.teamSize - 1 > 0 THEN formData.teamSize - 1 ELSE 0)
  /\ changed = "teamSize" =>
       /\ Len(formData.teamMembers) >= Len(formBefore.teamMembers) =>
            /\ IsPrefix(formBefore.teamMembers, formData.teamMembers)
            /\ \A i \in (Len(formBefore.teamMembers) + 1)..Len(formData.teamMembers) :
                 formData.teamMembers[i] = EmptyMember
       /\ Len(formData.teamMembers) < Len(formBefore.teamMembers) =>
            formData.teamMembers =
              SubSeq(formBefore.teamMembers, 1, formData.teamSize - 1)
  /\ changed \notin {"", "teamSize"} =>
       Len(formData.teamMembers) = Len(formBefore.teamMembers)

\* The team of three with both members named shrank to two: the first
\* member stayed.
C26_Witness ==
  /\ changed = "teamSize"
  /\ Len(formBefore.teamMembers) = 2
  /\ formBefore.teamMembers[1].name = <<"T">>
  /\ formBefore.teamMembers[2].email = <<"T">>
  /\ formData.teamSize = 2
  /\ formData.teamMembers = << formBefore.teamMembers[1] >>


\* ============================================== claims, OTP, third series
\* The properties one failure short of a lockout: a live code and
\* MAX_FAILED_ATTEMPTS - 1 wrong codes counted against it.
NearLockout ==
  setProperty(Issued(0), lockoutKey(eA),
              JSONstringify(LockoutData(MAX_FAILED_ATTEMPTS - 1, toISOString(0))))

OtpLockRaceInit == RegInit /\ AuxInit /\ OtpInit(NearLockout)

\* Concurrent OTP requests for an email one failure short of a lockout.
OtpLockRaceSpec == OtpLockRaceInit /\ [][OtpRaceNext]_vars

\* The VERIFY_OTP had its code compared with the stored code: it matched, or
\* it was the wrong code.
Compared(p) ==
  /\ pc[p] # "idle"
  /\ body[p].action = "VERIFY_OTP"
  /\ \/ pc[p] \in {"release", "welcome", "incrRead", "incrWrite"}
          /\ (result[p].valid \/ result[p].reason = MismatchText)
     \/ pc[p] = "done"
          /\ Answer(p) \in {MismatchText, "OTP verified successfully. Welcome!"}

\* C27, as stated: for every interleaving of concurrent VERIFY_OTP and
\* SEND_OTP requests for one email, no VERIFY_OTP succeeds at a moment when
\* the stored lockout record has count >= MAX_FAILED_ATTEMPTS and an unelapsed
\* window, and at most MAX_FAILED_ATTEMPTS wrong codes are compared against
\* any one stored OTP.
C27_LockoutUnderConcurrency ==
  /\ [][\A p \in Procs :
          (pc[p] = "verify" /\ pc'[p] = "release" /\ result'[p].valid) =>
            ~Locked(props', emailOf(body[p]), now)]_vars
  /\ [](\A e \in OtpEmails : mismatches[e] <= MAX_FAILED_ATTEMPTS)

\* C27, amended: for every interleaving of concurrent VERIFY_OTP and SEND_OTP
\* requests for one email, a VERIFY_OTP succeeds, or has a wrong code compared
\* against the stored OTP, only if the stored lockout record did not have
\* count >= MAX_FAILED_ATTEMPTS with an unelapsed window at that request's own
\* lockout check; a well-formed request whose check found the email locked
\* out is answered as locked out and compares nothing.
C27_LockoutAtOwnCheck ==
  \A p \in Procs :
    /\ Compared(p) => ~Locked(props0[p], emailOf(body[p]), now)
    /\ (pc[p] # "idle" /\ body[p].action = "VERIFY_OTP"
          /\ Locked(props0[p], emailOf(body[p]), now)) =>
         /\ pc[p] = "done"
         /\ Answer(p) \in {VerifyLockedText, InvalidEmailText, InvalidOtpText}
         /\ Answer(p) = VerifyLockedText
              \/ ~isValidEmail_(emailOf(body[p]))
              \/ ~isValidOtpFormat(otpOf(body[p]))

\* Two concurrent VERIFY_OTP passed their lockout checks one failure short of
\* the threshold; the wrong code was counted and reached the threshold, and
\* the other request's correct code was then accepted.
C27_Witness ==
  \E p, q \in Procs :
    /\ p # q
    /\ VerifyRan(p) /\ Answer(p) = MismatchText
    /\ "incr" \in wrote[p]
    /\ pc[q] = "release" /\ body[q].action = "VERIFY_OTP" /\ result[q].valid
    /\ Locked(props, emailOf(body[q]), now)
    /\ ~Locked(props0[q], emailOf(body[q]), now)


\* The step stores an OTP record for the email: a record where there was
\* none, or one that differs from the old one by more than its consumption.
StoredFor(e) ==
  /\ HasOtp(props', e)
  /\ \/ ~HasOtp(props, e)
     \/ OtpRec(props', e).otp # OtpRec(props, e).otp
     \/ OtpRec(props', e).expiry # OtpRec(props, e).expiry
     \/ OtpRec(props, e).isUsed /\ ~OtpRec(props', e).isUsed

VerifiedText == "OTP verified successfully. Welcome!"

\* C28: an OTP record is stored for an email only by a step of a SEND_OTP
\* whose own directory lookup returned a record for that email; every existing
\* OTP record belongs to an email of the directory, and a VERIFY_OTP succeeds
\* only for such an email, whatever its own lookup returns.
C28_OtpOnlyForListedEmail ==
  /\ [][\A e \in OtpEmails :
          StoredFor(e) =>
            \E p \in Procs :
              /\ pc[p] = "store" /\ pc'[p] = "release"
              /\ body[p].action = "SEND_OTP" /\ emailOf(body[p]) = e
              /\ lookup[p] = "200"
              /\ adminDoc[p] # null /\ adminDoc[p] = admins[e]]_vars
  /\ [](\A e \in OtpEmails : HasOtp(props, e) => e \in DOMAIN admins)
  /\ [](\A p \in Procs :
          (VerifyRan(p) /\ Answer(p) = VerifiedText) =>
            /\ emailOf(body[p]) \in DOMAIN admins
            /\ HasOtp(props, emailOf(body[p]))
            /\ OtpRec(props, emailOf(body[p])).isUsed)

\* A VERIFY_OTP succeeded although its own directory lookup failed: the code
\* had been stored by an earlier SEND_OTP that found the email.
C28_Witness ==
  \E p \in Procs :
    /\ VerifyRan(p) /\ Answer(p) = VerifiedText
    /\ lookup[p] \in {"500", "throw"}
    /\ response[p].data.name = <<"A", "d", "m", "i", "n">>
    /\ HasOtp(props, emailOf(body[p]))


\* The value stored under the key, null when there is none.
Stored(store, key) == IF key \in DOMAIN store THEN store[key] ELSE null

\* C29: while an email is locked out, every step of a SEND_OTP or VERIFY_OTP
\* leaves its lockout record (count and lastAttempt) and its OTP record as
\* they are; a request that arrives during the lockout writes nothing, sends
\* nothing and is answered locked-out (or with a format error); a request is
\* answered locked-out only from the failure that reached the threshold until
\* LOCKOUT_MINUTES after it.
C29_RejectionKeepsLockout ==
  /\ [][\A e \in OtpEmails :
          Locked(props, e, now) =>
            /\ Stored(props', lockoutKey(e)) = Stored(props, lockoutKey(e))
            /\ Stored(props', otpKey(e)) = Stored(props, otpKey(e))]_vars
  /\ [](\A p \in Procs :
          (pc[p] = "done" /\ Locked(props0[p], emailOf(body[p]), now)) =>
            /\ wrote[p] = {}
            /\ outbox[p] = {}
            /\ Answer(p) \in
                 {SendLockedText, VerifyLockedText, InvalidEmailText, InvalidOtpText})
  /\ [](\A p \in Procs :
          (pc[p] = "done" /\ LockedOutAnswer(p)) =>
            LET e == emailOf(body[p])
            IN  /\ failed[e][1] >= MAX_FAILED_ATTEMPTS
                /\ failed[e][2] <= now
                /\ now < failed[e][2] + LOCKOUT_MINUTES
                /\ parseDate(JSONparse(props[lockoutKey(e)]).lastAttempt) = failed[e][2])

\* A SEND_OTP that arrived two ticks after the failure that reached the
\* threshold was answered locked-out; the lockout record still carries the time
\* of that failure.
C29_Witness ==
  \E p \in Procs :
    /\ SendRan(p)
    /\ Answer(p) = SendLockedText
    /\ now = failed[emailOf(body[p])][2] + 2 * TickMinutes
    /\ FailCount(props, emailOf(body[p])) = MAX_FAILED_ATTEMPTS
    /\ parseDate(JSONparse(props[lockoutKey(emailOf(body[p]))]).lastAttempt)
         = failed[emailOf(body[p])][2]


\* C30: whenever the response to a SEND_OTP is an error (invalid format,
\* locked out, not authorized, lock timeout, or an exception of the email
\* sender answered by doPost), the stored OTP record of the email is the one
\* from before the request.
C30_SendErrorKeepsOtp ==
  \A p \in Procs :
    (SendRan(p) /\ response[p].status = "error") =>
      Stored(props, otpKey(emailOf(body[p]))) = Stored(props0[p], otpKey(emailOf(body[p])))

====
